---- MODULE Spec2Model ----
(***************************************************************************)
(* Access control and ownership of shared design documents: the Project    *)
(* model (owner, collaborators, version), the Design model, the            *)
(* requireOwnershipOrCollaboration middleware and the project and design   *)
(* route handlers.  Every request is a sequence of steps separated by the  *)
(* awaits of its handler; steps of different requests interleave against   *)
(* the shared document store.                                              *)
(***************************************************************************)
EXTENDS Integers, Sequences, FiniteSets, TLC

VARIABLES
    projects,       \* the Project collection: id -> stored document
    designs,        \* the Design collection: id -> stored document
    templates,      \* the Template collection: id -> stored document
    files,          \* the DesignFile collection: id -> stored document
    nextProjectId,  \* ids are never reused (ObjectId)
    nextDesignId,
    nextFileId,
    now,            \* Date.now(), in milliseconds
    reqs,           \* requests in flight, oldest first: loaded document and position
    last            \* the step just taken and, when it answered, the response

vars ==
    <<projects, designs, templates, files, nextProjectId, nextDesignId, nextFileId,
      now, reqs, last>>

(* ------------------------------ bounds --------------------------------- *)
MaxProjects == 1
MaxDesigns == 1
MaxInflight == 2
MaxVersion == 4
MaxCollaborators == 2
MaxFurniture == 2
MaxClock == 1
MaxCopies == 1          \* duplicate requests served
MaxSourceDesigns == 2   \* designs of a project that is duplicated
MaxRooms == 2           \* rooms of a design
MaxPoints == 4          \* points of a room
MaxUsage == 1           \* views of a template
MaxRatings == 2         \* ratings of a template

(* ------------------------------ domains -------------------------------- *)
Users == {"u1", "u2", "u3"}
NoUser == "nobody"              \* an email or id that matches no user
Roles == {"viewer", "editor", "admin"}
BadRole == "owner"              \* a role outside the enum
Owners == {"u1"}                \* the users who create projects
ConcurrentUsers == {"u1", "u2"} \* the users and roles of concurrent requests
ConcurrentRoles == {"viewer", "admin"}
Slots == 1..MaxInflight         \* positions in the list of requests in flight

roleHierarchy == [viewer |-> 1, editor |-> 2, admin |-> 3]

(* --------------------------- Project model ----------------------------- *)

\* collaborators.find(c => c.user.toString() === userId.toString()): the
\* index of the first entry of the user, 0 when there is none
FindCollaborator(collaborators, userId) ==
    IF \E i \in 1..Len(collaborators) : collaborators[i].user = userId
    THEN CHOOSE i \in 1..Len(collaborators) :
            /\ collaborators[i].user = userId
            /\ \A j \in 1..(i - 1) : collaborators[j].user # userId
    ELSE 0

IsCollaborator(collaborators, userId) == FindCollaborator(collaborators, userId) # 0

\* hasAccess with > for >=
hasAccessStrictlyAbove(project, userId, requiredRole) ==
    IF project.owner = userId THEN TRUE
    ELSE LET i == FindCollaborator(project.collaborators, userId)
         IN IF i = 0 THEN FALSE
            ELSE roleHierarchy[project.collaborators[i].role] > roleHierarchy[requiredRole]

hasAccess(project, userId, requiredRole) ==
    IF project.owner = userId THEN TRUE
    ELSE LET i == FindCollaborator(project.collaborators, userId)
         IN IF i = 0 THEN FALSE
            ELSE roleHierarchy[project.collaborators[i].role] >= roleHierarchy[requiredRole]

\* the in-memory effect of addCollaborator before its save()
addCollaborator(collaborators, userId, role) ==
    LET i == FindCollaborator(collaborators, userId)
    IN IF i # 0 THEN [collaborators EXCEPT ![i].role = role]
       ELSE Append(collaborators, [user |-> userId, role |-> role])

\* the in-memory effect of removeCollaborator before its save()
KeepsCollaborator(c, userId) == c.user # userId

removeCollaborator(collaborators, userId) ==
    SelectSeq(collaborators, LAMBDA c : KeepsCollaborator(c, userId))

\* name: maxlength 100
MaxNameLength == 100

ShortName == "Flat"
\* a name of 94 characters
LongName == "A two-bedroom flat on the third floor with a balcony, a kitchen island and a built-in wardrobe"
ProjectNames == {ShortName, LongName}
ProjectStatuses == {"draft", "completed"}

\* the validators save() runs on the name: required, maxlength
ValidName(name) == name # "" /\ Len(name) <= MaxNameLength

\* new Project({ name, owner, status }) with the defaults of the schema
NamedProject(name, owner, status) ==
    [name |-> name, owner |-> owner, collaborators |-> <<>>, isPublic |-> FALSE,
     status |-> status, version |-> 1, vkey |-> 0]

NewProject(owner) == NamedProject(ShortName, owner, "draft")

(* ------------------------------ middleware ----------------------------- *)

\* the middleware reads of the request only whether its method is GET
Methods == {"GET", "write"}

Method(op) == IF op = "getProject" THEN "GET" ELSE "write"

\* the middleware without the test of the method
requirePublicForAnyMethod(store, resourceId, user, method) ==
    IF resourceId \notin DOMAIN store THEN "Resource not found"
    ELSE LET resource == store[resourceId]
         IN IF resource.owner = user THEN "next"
            ELSE IF \E i \in 1..Len(resource.collaborators) :
                          resource.collaborators[i].user = user THEN "next"
            ELSE IF resource.isPublic THEN "next"
            ELSE "Access denied"

\* the decision of the middleware for an authenticated user: "next" or the
\* message of the response it sends
requireOwnershipOrCollaboration(store, resourceId, user, method) ==
    IF resourceId \notin DOMAIN store THEN "Resource not found"
    ELSE LET resource == store[resourceId]
         IN IF resource.owner = user THEN "next"
            ELSE IF Len(resource.collaborators) > 0
                    /\ \E i \in 1..Len(resource.collaborators) :
                          resource.collaborators[i].user = user THEN "next"
            ELSE IF method = "GET" /\ resource.isPublic THEN "next"
            ELSE "Access denied"

StatusOf(msg) ==
    CASE msg = "OK" -> 200
      [] msg \in {"Created", "Project duplicated successfully"} -> 201
      [] msg \in {"Validation failed", "User is already a collaborator",
                  "You cannot remove yourself from the project"} -> 400
      [] msg \in {"Authentication required", "Access token required",
                  "Invalid token - user not found", "Account is deactivated",
                  "Invalid token", "Token expired"} -> 401
      [] msg \in {"Access denied", "Only project owners can delete projects",
                  "subscription required",
                  "Upgrade your subscription to access this template",
                  "Upgrade your subscription to use this template",
                  "Please sign in to access this template"} -> 403
      [] msg \in {"Resource not found", "Project not found", "User not found",
                  "Collaborator not found", "Design not found",
                  "Project not found or access denied",
                  "Furniture not found", "Template not found",
                  "File not found"} -> 404
      [] msg = "Server error" -> 500
      [] OTHER -> 0

\* what the user is to a loaded project: "owner", the role of the user's
\* first collaborator entry, or "none" ("unknown": no project was loaded)
Standing(resource, user) ==
    IF resource.owner = user THEN "owner"
    ELSE LET i == FindCollaborator(resource.collaborators, user)
         IN IF i = 0 THEN "none" ELSE resource.collaborators[i].role

\* a step that sends the response msg to the request (op, target, role) of
\* actor, who was `as` to the project the request loaded
Answer(op, actor, id, msg, target, role, as) ==
    [op |-> op, actor |-> actor, id |-> id, msg |-> msg,
     target |-> target, role |-> role, as |-> as]

\* a step that sends nothing yet
Quiet ==
    [op |-> "none", actor |-> NoUser, id |-> 0, msg |-> "pending",
     target |-> NoUser, role |-> BadRole, as |-> "unknown"]

(* ---------------------------- document store --------------------------- *)

Remove(store, id) == [x \in DOMAIN store \ {id} |-> store[x]]

Insert(store, id, doc) == [x \in DOMAIN store \cup {id} |-> IF x = id THEN doc ELSE store[x]]

(* -------------------------------- Init --------------------------------- *)

Init ==
    /\ projects = << >>
    /\ designs = << >>
    /\ files = << >>
    /\ nextFileId = 1
    /\ templates = << >>
    /\ nextProjectId = 1
    /\ nextDesignId = 1
    /\ now = 0
    /\ reqs = << >>
    /\ last = Quiet

(* ------------------------- POST /api/projects -------------------------- *)

CreateProject(user) ==
    /\ nextProjectId <= MaxProjects
    /\ projects' = Insert(projects, nextProjectId, NewProject(user))
    /\ nextProjectId' = nextProjectId + 1
    /\ last' = Answer("createProject", user, nextProjectId, "Created", NoUser, BadRole, "unknown")
    /\ UNCHANGED <<files, nextFileId, templates, designs, nextDesignId, now, reqs>>

(* --------- authenticateToken, requireOwnershipOrCollaboration ---------- *)

\* req.resource: the fields of the loaded document that the handlers read
Loaded(doc) ==
    [name |-> doc.name, owner |-> doc.owner, collaborators |-> doc.collaborators,
     version |-> doc.version, vkey |-> doc.vkey]

\* The middleware chain is the same for every route on /api/projects/:id and
\* reads only the method of the request, so a request in flight is the
\* method, the user and the document loaded; the handler step that takes it
\* up later is the one of its route.
BeginProjectRequest(limit, method, user, id) ==
    /\ Len(reqs) < limit
    /\ id \in 1..(nextProjectId - 1)
    /\ LET decision == requireOwnershipOrCollaboration(projects, id, user, method)
       IN IF decision = "next"
          THEN /\ reqs' = Append(reqs, [kind |-> "project", method |-> method,
                                       actor |-> user, id |-> id,
                                       resource |-> Loaded(projects[id]),
                                       pc |-> "handler"])
               /\ last' = Quiet
          ELSE /\ reqs' = reqs
               /\ last' = Answer(method, user, id, decision, NoUser, BadRole,
                                 IF id \in DOMAIN projects
                                 THEN Standing(projects[id], user) ELSE "unknown")
    /\ UNCHANGED <<files, nextFileId, templates, projects, designs, nextProjectId, nextDesignId, now>>

Finish(s) == [i \in 1..(Len(reqs) - 1) |-> IF i < s THEN reqs[i] ELSE reqs[i + 1]]

AtHandler(s, op) ==
    /\ s \in 1..Len(reqs)
    /\ reqs[s].kind = "project"
    /\ reqs[s].method = Method(op)
    /\ reqs[s].pc = "handler"

(* ------------------------ GET /api/projects/:id ------------------------ *)

GetProject(s) ==
    /\ AtHandler(s, "getProject")
    /\ LET r == reqs[s]
           msg == IF r.id \in DOMAIN projects THEN "OK" ELSE "Project not found"
       IN last' = Answer("getProject", r.actor, r.id, msg, NoUser, BadRole, Standing(r.resource, r.actor))
    /\ reqs' = Finish(s)
    /\ UNCHANGED <<files, nextFileId, templates, projects, designs, nextProjectId, nextDesignId, now>>

(* ------------------------ PUT /api/projects/:id ------------------------ *)

UpdateBodies ==
    [fields : SUBSET {"isPublic"}, isPublic : BOOLEAN]

\* the fields of req.body the handler copies into updateData
ProjectUpdateFields == {"isPublic"}

\* req.body passed on whole
projectUpdateDataWhole(body) == body

\* updateData: the fields of req.body that the handler takes over
projectUpdateData(body) == [body EXCEPT !.fields = @ \cap ProjectUpdateFields]

\* Project.findByIdAndUpdate(id, updateData): one atomic $set of the given
\* fields; no save hook runs, the version fields stay; a missing document
\* gives null, which the handler returns in a 200 answer
findByIdAndUpdateProject(store, id, updateData) ==
    IF id \notin DOMAIN store THEN store
    ELSE [store EXCEPT ![id] =
            [@ EXCEPT !.isPublic = IF "isPublic" \in updateData.fields
                                  THEN updateData.isPublic ELSE @,
                      !.owner = IF "owner" \in updateData.fields
                                THEN updateData.owner ELSE @]]

UpdateProject(s, body) ==
    /\ AtHandler(s, "updateProject")
    /\ LET r == reqs[s]
       IN /\ projects' = findByIdAndUpdateProject(projects, r.id, projectUpdateData(body))
          /\ last' = Answer("updateProject", r.actor, r.id, "OK", NoUser, BadRole, Standing(r.resource, r.actor))
    /\ reqs' = Finish(s)
    /\ UNCHANGED <<files, nextFileId, templates, designs, nextProjectId, nextDesignId, now>>

(* ----------------------- DELETE /api/projects/:id ---------------------- *)

\* Design.deleteMany({ project: id })
deleteManyDesigns(store, projectId) ==
    [d \in {x \in DOMAIN store : store[x].project # projectId} |-> store[d]]

\* the owner check letting an admin collaborator through
IsProjectOwnerOrAdmin(resource, user) ==
    \/ resource.owner = user
    \/ \E i \in 1..Len(resource.collaborators) :
          resource.collaborators[i] = [user |-> user, role |-> "admin"]

\* req.resource.owner.toString() !== req.user._id.toString() is the refusal
IsProjectOwner(resource, user) == resource.owner = user

\* the owner check and the first await: the designs of the project go
DeleteProjectDesigns(s) ==
    /\ AtHandler(s, "deleteProject")
    /\ LET r == reqs[s]
       IN IF ~IsProjectOwner(r.resource, r.actor)
          THEN /\ last' = Answer("deleteProject", r.actor, r.id,
                                 "Only project owners can delete projects",
                                 NoUser, BadRole, Standing(r.resource, r.actor))
               /\ reqs' = Finish(s)
               /\ designs' = designs
          ELSE /\ designs' = deleteManyDesigns(designs, r.id)
               /\ reqs' = [reqs EXCEPT ![s].pc = "findByIdAndDelete"]
               /\ last' = Quiet
    /\ UNCHANGED <<files, nextFileId, templates, projects, nextProjectId, nextDesignId, now>>

\* the second await: Project.findByIdAndDelete(id), then the answer
DeleteProjectDocument(s) ==
    /\ s \in 1..Len(reqs)
    /\ reqs[s].kind = "project"
    /\ reqs[s].pc = "findByIdAndDelete"
    /\ LET r == reqs[s]
       IN /\ projects' = Remove(projects, r.id)
          /\ last' = Answer("deleteProject", r.actor, r.id, "OK", NoUser, BadRole, Standing(r.resource, r.actor))
    /\ reqs' = Finish(s)
    /\ UNCHANGED <<files, nextFileId, templates, designs, nextProjectId, nextDesignId, now>>

(* ------------------------- document.save() ----------------------------- *)

\* projectSchema.pre('save') on a loaded (not new) document that was modified
preSaveVersion(resource) == resource.version + 1

\* save() of a loaded project sends the delta of the modified paths as one
\* atomic update.  whereVersion: the update matches only the version key the
\* document was loaded with (an array overwritten, or an element set by
\* position); incVersion: the version key is incremented (an array pushed to
\* or overwritten).  No document matched: save() throws.
SaveMatches(store, id, resource, whereVersion) ==
    /\ id \in DOMAIN store
    /\ whereVersion => store[id].vkey = resource.vkey

(* ------------------ POST /api/projects/:id/collaborators --------------- *)

\* the delta of a push is $push: the entry is appended to the stored array
PushCollaborator(store, id, resource, entry) ==
    [store EXCEPT ![id] =
        [@ EXCEPT !.collaborators = Append(@, entry),
                  !.version = preSaveVersion(resource),
                  !.vkey = @ + 1]]

AddCollaborator(s, email, role) ==
    /\ AtHandler(s, "addCollaborator")
    /\ LET r == reqs[s]
           answer(msg) == Answer("addCollaborator", r.actor, r.id, msg, email, role, Standing(r.resource, r.actor))
       IN IF role \notin Roles
          THEN /\ last' = answer("Validation failed")
               /\ projects' = projects
          ELSE IF email \notin Users
          THEN /\ last' = answer("User not found")
               /\ projects' = projects
          ELSE IF IsCollaborator(r.resource.collaborators, email)
          THEN /\ last' = answer("User is already a collaborator")
               /\ projects' = projects
          ELSE LET doc == addCollaborator(r.resource.collaborators, email, role)
               IN /\ r.resource.version < MaxVersion
                  /\ r.id \in DOMAIN projects =>
                        /\ projects[r.id].vkey < MaxVersion - 1
                        /\ Len(projects[r.id].collaborators) < MaxCollaborators
                  /\ IF SaveMatches(projects, r.id, r.resource, FALSE)
                     THEN /\ projects' = PushCollaborator(projects, r.id, r.resource, doc[Len(doc)])
                          /\ last' = answer("OK")
                     ELSE /\ projects' = projects
                          /\ last' = answer("Server error")
    /\ reqs' = Finish(s)
    /\ UNCHANGED <<files, nextFileId, templates, designs, nextProjectId, nextDesignId, now>>

(* ------------- PUT /api/projects/:id/collaborators/:userId ------------- *)

\* the role set on every entry instead of the one found
SetEveryCollaboratorRole(store, id, resource, i, role) ==
    [store EXCEPT ![id] =
        [@ EXCEPT !.collaborators = [j \in 1..Len(@) |-> [@[j] EXCEPT !.role = role]],
                  !.version = preSaveVersion(resource)]]

\* the delta of collaborator.role = role is $set collaborators.<i>.role,
\* matched against the loaded version key
SetCollaboratorRole(store, id, resource, i, role) ==
    [store EXCEPT ![id] =
        [@ EXCEPT !.collaborators[i].role = role,
                  !.version = preSaveVersion(resource)]]

UpdateCollaborator(s, userId, role) ==
    /\ AtHandler(s, "updateCollaborator")
    /\ LET r == reqs[s]
           i == FindCollaborator(r.resource.collaborators, userId)
           answer(msg) == Answer("updateCollaborator", r.actor, r.id, msg, userId, role, Standing(r.resource, r.actor))
       IN IF i = 0
          THEN /\ last' = answer("Collaborator not found")
               /\ projects' = projects
          ELSE IF role \notin Roles      \* the enum validator of save() throws
          THEN /\ last' = answer("Server error")
               /\ projects' = projects
          ELSE IF r.resource.collaborators[i].role = role   \* nothing modified
          THEN /\ last' = answer("OK")
               /\ projects' = projects
          ELSE /\ r.resource.version < MaxVersion
               /\ IF SaveMatches(projects, r.id, r.resource, TRUE)
                  THEN /\ projects' = SetCollaboratorRole(projects, r.id, r.resource, i, role)
                       /\ last' = answer("OK")
                  ELSE /\ projects' = projects
                       /\ last' = answer("Server error")
    /\ reqs' = Finish(s)
    /\ UNCHANGED <<files, nextFileId, templates, designs, nextProjectId, nextDesignId, now>>

(* ------------ DELETE /api/projects/:id/collaborators/:userId ----------- *)

\* the delta of this.collaborators = [...] is $set of the whole array,
\* matched against the loaded version key, which it increments
OverwriteCollaborators(store, id, resource, collaborators) ==
    [store EXCEPT ![id] =
        [@ EXCEPT !.collaborators = collaborators,
                  !.version = preSaveVersion(resource),
                  !.vkey = @ + 1]]

\* the self check left out
RemovesSelfNever(userId, user) == FALSE

\* userId === req.user._id.toString()
RemovesSelf(userId, user) == userId = user

RemoveCollaborator(s, userId) ==
    /\ AtHandler(s, "removeCollaborator")
    /\ LET r == reqs[s]
           doc == removeCollaborator(r.resource.collaborators, userId)
           answer(msg) == Answer("removeCollaborator", r.actor, r.id, msg, userId, BadRole, Standing(r.resource, r.actor))
       IN IF RemovesSelf(userId, r.actor)
          THEN /\ last' = answer("You cannot remove yourself from the project")
               /\ projects' = projects
          ELSE IF doc = r.resource.collaborators            \* nothing modified
          THEN /\ last' = answer("OK")
               /\ projects' = projects
          ELSE /\ r.resource.version < MaxVersion
               /\ r.id \in DOMAIN projects => projects[r.id].vkey < MaxVersion - 1
               /\ IF SaveMatches(projects, r.id, r.resource, TRUE)
                  THEN /\ projects' = OverwriteCollaborators(projects, r.id, r.resource, doc)
                       /\ last' = answer("OK")
                  ELSE /\ projects' = projects
                       /\ last' = answer("Server error")
    /\ reqs' = Finish(s)
    /\ UNCHANGED <<files, nextFileId, templates, designs, nextProjectId, nextDesignId, now>>

(* ---------------------------- Design model ----------------------------- *)

FurnitureIds == {"f1", "f2"}
NoId == "absent"                \* a field the request does not carry
Prices == {0, 10}
Names == {"a", "b"}

RECURSIVE SumPrices(_)
\* furniture.reduce((total, item) => total + (item.price || 0), 0)
SumPrices(furniture) ==
    IF furniture = << >> THEN 0
    ELSE furniture[1].price + SumPrices(Tail(furniture))

\* designSchema.pre('save'): the cost and count parts of metadata
preSaveMetadata(furniture) ==
    [totalCost |-> SumPrices(furniture), furnitureCount |-> Len(furniture)]

DesignStatuses == {"draft", "completed"}
InitialVersion == "1.0.0"       \* the default of designSchema.version

\* a Design as its first save() stores it
DesignDocument(projectId, name, furniture, status) ==
    [project |-> projectId, name |-> name, furniture |-> furniture, isPublic |-> FALSE,
     status |-> status, version |-> InitialVersion,
     metadata |-> preSaveMetadata(furniture), vkey |-> 0]

NewDesign(projectId, name, furniture) == DesignDocument(projectId, name, furniture, "draft")

\* the in-memory effect of addFurniture before its save()
addFurniture(furniture, furnitureData) ==
    Append(furniture,
           [id |-> IF furnitureData.id # NoId THEN furnitureData.id
                   ELSE "furniture-" \o ToString(now),
            price |-> furnitureData.price])

\* furniture.id(furnitureId): DocumentArray.id() looks an element up by its
\* _id, and furnitureItemSchema is declared with { _id: false }: no element
\* has one, the lookup finds nothing (0)
DocumentArrayId(furniture, furnitureId) == 0

\* the in-memory effect of removeFurniture before its save()
KeepsFurniture(f, furnitureId) == f.id # furnitureId

removeFurniture(furniture, furnitureId) ==
    SelectSeq(furniture, LAMBDA f : KeepsFurniture(f, furnitureId))

(* -------------------------- POST /api/designs -------------------------- *)

\* Project.findOne({ _id: projectId, $or: [owner, collaborators.user] })
findAccessibleProject(store, projectId, user) ==
    /\ projectId \in DOMAIN store
    /\ \/ store[projectId].owner = user
       \/ \E i \in 1..Len(store[projectId].collaborators) :
             store[projectId].collaborators[i].user = user

BeginCreateDesign(limit, user, projectId) ==
    /\ Len(reqs) < limit
    /\ projectId \in 1..(nextProjectId - 1)
    /\ IF findAccessibleProject(projects, projectId, user)
       THEN /\ reqs' = Append(reqs, [kind |-> "createDesign", actor |-> user,
                                    id |-> projectId,
                                    project |-> Loaded(projects[projectId]),
                                    pc |-> "save"])
            /\ last' = Quiet
       ELSE /\ reqs' = reqs
            /\ last' = Answer("createDesign", user, projectId,
                              "Project not found or access denied", NoUser, BadRole,
                              IF projectId \in DOMAIN projects
                              THEN Standing(projects[projectId], user) ELSE "unknown")
    /\ UNCHANGED <<files, nextFileId, templates, projects, designs, nextProjectId, nextDesignId, now>>

\* new Design({ project, name, ...designData }).save()
InsertDesign(s, name, furniture) ==
    /\ s \in 1..Len(reqs)
    /\ reqs[s].kind = "createDesign"
    /\ nextDesignId <= MaxDesigns
    /\ LET r == reqs[s]
       IN /\ designs' = Insert(designs, nextDesignId, NewDesign(r.id, name, furniture))
          /\ last' = Answer("createDesign", r.actor, nextDesignId, "Created",
                            NoUser, BadRole, Standing(r.project, r.actor))
    /\ nextDesignId' = nextDesignId + 1
    /\ reqs' = Finish(s)
    /\ UNCHANGED <<files, nextFileId, templates, projects, nextProjectId, now>>

(* ------ PUT, DELETE /api/designs/:id and its furniture sub-routes ------ *)

\* the access rule without the test of the role
CanEditDesignAnyRole(project, user) ==
    \/ project.owner = user
    \/ \E i \in 1..Len(project.collaborators) : project.collaborators[i].user = user

\* the access rule of the routes that write a design
CanEditDesign(project, user) ==
    \/ project.owner = user
    \/ \E i \in 1..Len(project.collaborators) :
          /\ project.collaborators[i].user = user
          /\ project.collaborators[i].role \in {"editor", "admin"}

\* The five routes that write a design open with the same lines: load the
\* design with its project populated, 404 without the design, the access
\* rule, 403.  A design whose project is gone has project null, and reading
\* its owner throws (500).
BeginDesignWrite(limit, user, id) ==
    /\ Len(reqs) < limit
    /\ id \in 1..(nextDesignId - 1)
    /\ LET answer(msg, as) == Answer("writeDesign", user, id, msg, NoUser, BadRole, as)
       IN IF id \notin DOMAIN designs
          THEN reqs' = reqs /\ last' = answer("Design not found", "unknown")
          ELSE IF designs[id].project \notin DOMAIN projects
          THEN reqs' = reqs /\ last' = answer("Server error", "unknown")
          ELSE LET project == projects[designs[id].project]
               IN IF ~CanEditDesign(project, user)
                  THEN reqs' = reqs /\ last' = answer("Access denied", Standing(project, user))
                  ELSE /\ reqs' = Append(reqs, [kind |-> "design", actor |-> user, id |-> id,
                                               design |-> designs[id],
                                               project |-> Loaded(project),
                                               pc |-> "handler"])
                       /\ last' = Quiet
    /\ UNCHANGED <<files, nextFileId, templates, projects, designs, nextProjectId, nextDesignId, now>>

AtDesignHandler(s) ==
    /\ s \in 1..Len(reqs)
    /\ reqs[s].kind = "design"
    /\ reqs[s].pc = "handler"

DesignAnswer(s, op, msg) ==
    Answer(op, reqs[s].actor, reqs[s].id, msg, NoUser, BadRole,
           Standing(reqs[s].project, reqs[s].actor))

DesignBodies ==
    [fields : SUBSET {"name", "furniture", "status"}, name : Names, furniture : {<< >>},
     status : {"completed"}]

\* the fields of req.body the handler copies into updateData
DesignUpdateFields == {"name", "furniture", "status"}

\* updateData: the fields of req.body that the handler takes over
designUpdateData(body) == [body EXCEPT !.fields = @ \cap DesignUpdateFields]

\* Design.findByIdAndUpdate(id, updateData): one atomic $set of the given
\* fields; no save hook runs; a missing document gives null in a 200 answer
findByIdAndUpdateDesign(store, id, updateData) ==
    IF id \notin DOMAIN store THEN store
    ELSE [store EXCEPT ![id] =
            [@ EXCEPT !.name = IF "name" \in updateData.fields THEN updateData.name ELSE @,
                      !.furniture = IF "furniture" \in updateData.fields
                                    THEN updateData.furniture ELSE @,
                      !.status = IF "status" \in updateData.fields
                                 THEN updateData.status ELSE @,
                      !.project = IF "project" \in updateData.fields
                                  THEN updateData.project ELSE @]]

UpdateDesign(s, body) ==
    /\ AtDesignHandler(s)
    /\ designs' = findByIdAndUpdateDesign(designs, reqs[s].id, designUpdateData(body))
    /\ last' = DesignAnswer(s, "updateDesign", "OK")
    /\ reqs' = Finish(s)
    /\ UNCHANGED <<files, nextFileId, templates, projects, nextProjectId, nextDesignId, now>>

DeleteDesign(s) ==
    /\ AtDesignHandler(s)
    /\ designs' = Remove(designs, reqs[s].id)
    /\ last' = DesignAnswer(s, "deleteDesign", "OK")
    /\ reqs' = Finish(s)
    /\ UNCHANGED <<files, nextFileId, templates, projects, nextProjectId, nextDesignId, now>>

FurnitureData == [id : FurnitureIds \cup {NoId}, price : Prices]

\* save() after furniture.push(item): $push of the item, $set of the
\* metadata the hook computed on the loaded document, version key incremented
PushFurniture(store, id, design, item) ==
    [store EXCEPT ![id] =
        [@ EXCEPT !.furniture = Append(@, item),
                  !.metadata = preSaveMetadata(Append(design.furniture, item)),
                  !.vkey = @ + 1]]

AddFurniture(s, furnitureData) ==
    /\ AtDesignHandler(s)
    /\ LET r == reqs[s]
           doc == addFurniture(r.design.furniture, furnitureData)
       IN /\ r.id \in DOMAIN designs =>
                /\ designs[r.id].vkey < MaxVersion - 1
                /\ Len(designs[r.id].furniture) < MaxFurniture
          /\ IF r.id \in DOMAIN designs
             THEN /\ designs' = PushFurniture(designs, r.id, r.design, doc[Len(doc)])
                  /\ last' = [DesignAnswer(s, "addFurniture", "OK")
                                 EXCEPT !.target = furnitureData.id]
             ELSE /\ designs' = designs
                  /\ last' = [DesignAnswer(s, "addFurniture", "Server error")
                                 EXCEPT !.target = furnitureData.id]
    /\ reqs' = Finish(s)
    /\ UNCHANGED <<files, nextFileId, templates, projects, nextProjectId, nextDesignId, now>>

UpdateFurniture(s, furnitureId, price) ==
    /\ AtDesignHandler(s)
    /\ LET r == reqs[s]
           i == DocumentArrayId(r.design.furniture, furnitureId)
       IN IF i = 0
          THEN /\ designs' = designs
               /\ last' = [DesignAnswer(s, "updateFurniture", "Furniture not found")
                              EXCEPT !.target = furnitureId]
          ELSE /\ r.id \in DOMAIN designs /\ designs[r.id].vkey = r.design.vkey
               /\ designs' = [designs EXCEPT ![r.id] =
                     [@ EXCEPT !.furniture[i].price = price,
                               !.metadata = preSaveMetadata(
                                   [r.design.furniture EXCEPT ![i].price = price])]]
               /\ last' = [DesignAnswer(s, "updateFurniture", "OK")
                              EXCEPT !.target = furnitureId]
    /\ reqs' = Finish(s)
    /\ UNCHANGED <<files, nextFileId, templates, projects, nextProjectId, nextDesignId, now>>

\* save() after this.furniture = [...]: $set of the whole array and of the
\* metadata, matched against the loaded version key, which it increments
OverwriteFurniture(store, id, furniture) ==
    [store EXCEPT ![id] =
        [@ EXCEPT !.furniture = furniture,
                  !.metadata = preSaveMetadata(furniture),
                  !.vkey = @ + 1]]

RemoveFurniture(s, furnitureId) ==
    /\ AtDesignHandler(s)
    /\ LET r == reqs[s]
           doc == removeFurniture(r.design.furniture, furnitureId)
       IN IF doc = r.design.furniture /\ preSaveMetadata(doc) = r.design.metadata
          THEN /\ designs' = designs                     \* nothing modified
               /\ last' = DesignAnswer(s, "removeFurniture", "OK")
          ELSE IF doc = r.design.furniture               \* only the metadata
          THEN IF r.id \in DOMAIN designs
               THEN /\ designs' = [designs EXCEPT ![r.id].metadata = preSaveMetadata(doc)]
                    /\ last' = DesignAnswer(s, "removeFurniture", "OK")
               ELSE /\ designs' = designs
                    /\ last' = DesignAnswer(s, "removeFurniture", "Server error")
          ELSE /\ r.id \in DOMAIN designs => designs[r.id].vkey < MaxVersion - 1
               /\ IF r.id \in DOMAIN designs /\ designs[r.id].vkey = r.design.vkey
                  THEN /\ designs' = OverwriteFurniture(designs, r.id, doc)
                       /\ last' = DesignAnswer(s, "removeFurniture", "OK")
                  ELSE /\ designs' = designs
                       /\ last' = DesignAnswer(s, "removeFurniture", "Server error")
    /\ reqs' = Finish(s)
    /\ UNCHANGED <<files, nextFileId, templates, projects, nextProjectId, nextDesignId, now>>

\* time passes
Tick ==
    /\ now < MaxClock
    /\ now' = now + 1
    /\ last' = Quiet
    /\ UNCHANGED <<files, nextFileId, templates, projects, designs, nextProjectId, nextDesignId, reqs>>

(* --------------------------- specifications --------------------------- *)

\* the steps of the project routes, with at most `limit` requests in flight
\* and the users and roles of the requests drawn from the given sets
ProjectNext(limit, users, roles) ==
    \/ \E u \in Owners : CreateProject(u)
    \/ \E method \in Methods, u \in users, id \in 1..MaxProjects :
          BeginProjectRequest(limit, method, u, id)
    \/ \E s \in Slots : GetProject(s)
    \/ \E s \in Slots, body \in UpdateBodies : UpdateProject(s, body)
    \/ \E s \in Slots : DeleteProjectDesigns(s)
    \/ \E s \in Slots : DeleteProjectDocument(s)
    \/ \E s \in Slots, email \in users \cup {NoUser}, role \in roles \cup {BadRole} :
          AddCollaborator(s, email, role)
    \/ \E s \in Slots, userId \in users, role \in roles \cup {BadRole} :
          UpdateCollaborator(s, userId, role)
    \/ \E s \in Slots, userId \in users : RemoveCollaborator(s, userId)

\* requests served concurrently
Next == ProjectNext(MaxInflight, ConcurrentUsers, ConcurrentRoles)

Spec == Init /\ [][Next]_vars

\* the steps that create a design with no design data
CreateDesignNext(limit, users) ==
    \/ \E u \in users, id \in 1..MaxProjects : BeginCreateDesign(limit, u, id)
    \/ \E s \in Slots : InsertDesign(s, "a", << >>)

\* requests served one at a time
SerialNext ==
    \/ ProjectNext(1, Users, Roles)
    \/ CreateDesignNext(1, Users)

SerialSpec == Init /\ [][SerialNext]_vars

\* The design routes, served one at a time, on a project of u1 with
\* collaborators u2 and, or not, u3, of any roles.
DesignInit ==
    /\ \E r2 \in Roles, c3 \in {<< >>} \cup {<<[user |-> "u3", role |-> r]>> : r \in Roles} :
          LET collaborators == <<[user |-> "u2", role |-> r2]>> \o c3
          IN projects = Insert(<< >>, 1,
                 [NewProject("u1") EXCEPT !.collaborators = collaborators,
                                          !.version = 1 + Len(collaborators),
                                          !.vkey = Len(collaborators)])
    /\ designs = << >>
    /\ files = << >>
    /\ nextFileId = 1
    /\ templates = << >>
    /\ nextProjectId = 2
    /\ nextDesignId = 1
    /\ now = 0
    /\ reqs = << >>
    /\ last = Quiet

FurnitureLists == {<< >>} \cup {<<[id |-> "f1", price |-> p]>> : p \in Prices}

DesignNext ==
    \/ \E u \in Users : BeginCreateDesign(1, u, 1)
    \/ \E s \in Slots, name \in Names, furniture \in FurnitureLists :
          InsertDesign(s, name, furniture)
    \/ \E u \in Users, id \in 1..MaxDesigns : BeginDesignWrite(1, u, id)
    \/ \E s \in Slots, body \in DesignBodies : UpdateDesign(s, body)
    \/ \E s \in Slots : DeleteDesign(s)
    \/ \E s \in Slots, furnitureData \in FurnitureData : AddFurniture(s, furnitureData)
    \/ \E s \in Slots, furnitureId \in FurnitureIds, price \in Prices :
          UpdateFurniture(s, furnitureId, price)
    \/ \E s \in Slots, furnitureId \in FurnitureIds : RemoveFurniture(s, furnitureId)
    \/ Tick

DesignSpec == DesignInit /\ [][DesignNext]_vars

(* ------- DELETE /api/projects/:id against POST /api/designs ------------ *)

\* the deletion of a project and the creation of its designs, served
\* concurrently
CascadeNext ==
    \/ \E u \in Owners : CreateProject(u)
    \/ \E u \in ConcurrentUsers, id \in 1..MaxProjects :
          BeginProjectRequest(MaxInflight, "write", u, id)
    \/ \E s \in Slots : DeleteProjectDesigns(s)
    \/ \E s \in Slots : DeleteProjectDocument(s)
    \/ \E u \in ConcurrentUsers, id \in 1..MaxProjects :
          BeginCreateDesign(MaxInflight, u, id)
    \/ \E s \in Slots, name \in Names : InsertDesign(s, name, << >>)

CascadeSpec == Init /\ [][CascadeNext]_vars

(* ------------------- POST /api/projects/:id/duplicate ------------------ *)

NameOverrides == {NoId, "", "Loft"}

\* name || `${req.resource.name} (Copy)`
DuplicateName(name, resource) ==
    IF name \in {NoId, ""} THEN resource.name \o " (Copy)" ELSE name

\* the design copied with the status of its source
CopyOfDesignWithStatus(design, projectId) ==
    DesignDocument(projectId, design.name, design.furniture, design.status)

\* new Design({ project: newProject._id, name: design.name, ...,
\* version: '1.0.0', furniture: design.furniture, ..., status: 'draft' })
CopyOfDesign(design, projectId) ==
    DesignDocument(projectId, design.name, design.furniture, "draft")

AtDuplicate(s, pc) ==
    /\ s \in 1..Len(reqs)
    /\ reqs[s].kind = "duplicate"
    /\ reqs[s].pc = pc

DuplicateStep(r, msg) ==
    Answer("duplicateProject", r.actor, r.id, msg, r.name, BadRole, Standing(r.resource, r.actor))

\* newProject.save(): a name the validators refuse makes it throw (500)
DuplicateSaveProject(s, name) ==
    /\ AtHandler(s, "duplicateProject")
    /\ nextProjectId <= MaxProjects + MaxCopies
    /\ LET r == reqs[s]
           started == [kind |-> "duplicate", actor |-> r.actor, id |-> r.id,
                       resource |-> r.resource, name |-> name,
                       copy |-> nextProjectId, found |-> << >>, pc |-> "find"]
       IN IF ValidName(DuplicateName(name, r.resource))
          THEN /\ projects' = Insert(projects, nextProjectId,
                                     NamedProject(DuplicateName(name, r.resource), r.actor, "draft"))
               /\ nextProjectId' = nextProjectId + 1
               /\ reqs' = [reqs EXCEPT ![s] = started]
               /\ last' = DuplicateStep(started, "pending")
          ELSE /\ projects' = projects
               /\ nextProjectId' = nextProjectId
               /\ reqs' = Finish(s)
               /\ last' = DuplicateStep(started, "Server error")
    /\ UNCHANGED <<files, nextFileId, templates, designs, nextDesignId, now>>

RECURSIVE DesignsOf(_, _, _)
\* Design.find({ project }): the documents of the project, by id from `from`
DesignsOf(store, projectId, from) ==
    IF from >= nextDesignId THEN << >>
    ELSE IF from \in DOMAIN store /\ store[from].project = projectId
         THEN <<store[from]>> \o DesignsOf(store, projectId, from + 1)
         ELSE DesignsOf(store, projectId, from + 1)

DuplicateFindDesigns(s) ==
    /\ AtDuplicate(s, "find")
    /\ reqs' = [reqs EXCEPT ![s].found = DesignsOf(designs, reqs[s].id, 1), ![s].pc = "copy"]
    /\ last' = DuplicateStep(reqs[s], "pending")
    /\ UNCHANGED <<files, nextFileId, templates, projects, designs, nextProjectId, nextDesignId, now>>

\* one turn of the loop: newDesign.save()
DuplicateCopyDesign(s) ==
    /\ AtDuplicate(s, "copy")
    /\ reqs[s].found # << >>
    /\ designs' = Insert(designs, nextDesignId, CopyOfDesign(Head(reqs[s].found), reqs[s].copy))
    /\ nextDesignId' = nextDesignId + 1
    /\ reqs' = [reqs EXCEPT ![s].found = Tail(@)]
    /\ last' = DuplicateStep(reqs[s], "pending")
    /\ UNCHANGED <<files, nextFileId, templates, projects, nextProjectId, now>>

DuplicateAnswer(s) ==
    /\ AtDuplicate(s, "copy")
    /\ reqs[s].found = << >>
    /\ last' = DuplicateStep(reqs[s], "Project duplicated successfully")
    /\ reqs' = Finish(s)
    /\ UNCHANGED <<files, nextFileId, templates, projects, designs, nextProjectId, nextDesignId, now>>

\* the designs a stored project can have
SourceDesigns ==
    {DesignDocument(1, "a", furniture, status) :
        furniture \in {<< >>, <<[id |-> "f1", price |-> 10]>>}, status \in DesignStatuses}

SourceDesignLists == UNION {[1..n -> SourceDesigns] : n \in 0..MaxSourceDesigns}

\* a stored project of u1 with its designs
DuplicateInit ==
    /\ \E name \in ProjectNames, status \in ProjectStatuses, isPublic \in BOOLEAN,
          collaborators \in {<< >>, <<[user |-> "u2", role |-> "viewer"]>>} :
          projects = Insert(<< >>, 1,
                 [NamedProject(name, "u1", status) EXCEPT
                        !.collaborators = collaborators,
                        !.isPublic = isPublic,
                        !.version = 1 + Len(collaborators),
                        !.vkey = Len(collaborators)])
    /\ \E list \in SourceDesignLists :
          /\ designs = list
          /\ nextDesignId = Len(list) + 1
    /\ files = << >>
    /\ nextFileId = 1
    /\ templates = << >>
    /\ nextProjectId = 2
    /\ now = 0
    /\ reqs = << >>
    /\ last = Quiet

DuplicateNext ==
    \/ \E method \in Methods, u \in Users, id \in 1..(MaxProjects + MaxCopies) :
          BeginProjectRequest(1, method, u, id)
    \/ \E s \in Slots : GetProject(s)
    \/ \E s \in Slots, name \in NameOverrides : DuplicateSaveProject(s, name)
    \/ \E s \in Slots : DuplicateFindDesigns(s)
    \/ \E s \in Slots : DuplicateCopyDesign(s)
    \/ \E s \in Slots : DuplicateAnswer(s)

DuplicateSpec == DuplicateInit /\ [][DuplicateNext]_vars

(* ------------------ designSchema.pre('save'): totalArea ---------------- *)

\* Areas are counted in halves of a unit, so that Math.abs(area) / 2 of
\* integer coordinates is the integer Abs(area).
Abs(n) == IF n < 0 THEN -n ELSE n

RECURSIVE ShoelaceLoop(_, _)
\* for (i ...) { j = (i + 1) % length; area += p[i].x * p[j].y;
\* area -= p[j].x * p[i].y }, with points numbered from 1
ShoelaceLoop(points, i) ==
    IF i > Len(points) THEN 0
    ELSE LET j == (i % Len(points)) + 1
         IN points[i].x * points[j].y - points[j].x * points[i].y
            + ShoelaceLoop(points, i + 1)

RECURSIVE totalAreaSigned(_)
\* the loop without Math.abs
totalAreaSigned(rooms) ==
    IF rooms = << >> THEN 0
    ELSE (IF Len(rooms[1].points) >= 3 THEN ShoelaceLoop(rooms[1].points, 1) ELSE 0)
         + totalAreaSigned(Tail(rooms))

RECURSIVE totalArea(_)
\* rooms.forEach(room => { if (room.points.length >= 3) { ...;
\* totalArea += Math.abs(area) / 2 } }), in halves
totalArea(rooms) ==
    IF rooms = << >> THEN 0
    ELSE (IF Len(rooms[1].points) >= 3 THEN Abs(ShoelaceLoop(rooms[1].points, 1)) ELSE 0)
         + totalArea(Tail(rooms))

Coordinates == [x : {0, 4}, y : {0, 3}]

\* the room lists a client that draws sends next: one more room, or one
\* more point in the room drawn last
RoomEdits(rooms) ==
    {Append(rooms, [points |-> << >>]) : n \in {m \in {0} : Len(rooms) < MaxRooms}}
    \cup {[rooms EXCEPT ![Len(rooms)].points = Append(@, c)] :
            c \in {k \in Coordinates : /\ rooms # << >>
                                       /\ Len(rooms[Len(rooms)].points) < MaxPoints}}

\* the fields of a design that the area computation reads and writes
AreaInit ==
    /\ projects = Insert(<< >>, 1, NewProject("u1"))
    /\ designs = Insert(<< >>, 1, [project |-> 1, elements |-> [rooms |-> << >>],
                                   metadata |-> [totalArea |-> 0]])
    /\ files = << >>
    /\ nextFileId = 1
    /\ templates = << >>
    /\ nextProjectId = 2
    /\ nextDesignId = 2
    /\ now = 0
    /\ reqs = << >>
    /\ last = Quiet

\* PUT /api/designs/:id with elements: findByIdAndUpdate, no hook runs
ReplaceRooms(rooms) ==
    /\ designs' = [designs EXCEPT ![1].elements.rooms = rooms]
    /\ last' = Answer("updateDesign", "u1", 1, "OK", NoUser, BadRole, "owner")
    /\ UNCHANGED <<files, nextFileId, templates, projects, nextProjectId, nextDesignId, now, reqs>>

\* a save() of the design: the hook stores the area of the rooms
SaveDesign ==
    /\ designs' = [designs EXCEPT ![1].metadata.totalArea = totalArea(designs[1].elements.rooms)]
    /\ last' = Answer("saveDesign", "u1", 1, "OK", NoUser, BadRole, "owner")
    /\ UNCHANGED <<files, nextFileId, templates, projects, nextProjectId, nextDesignId, now, reqs>>

AreaNext ==
    \/ \E rooms \in RoomEdits(designs[1].elements.rooms) : ReplaceRooms(rooms)
    \/ SaveDesign

AreaSpec == AreaInit /\ [][AreaNext]_vars

(* ------------------- Template model, subscription gate ----------------- *)

Plans == {"free", "pro", "enterprise"}
Anonymous == "anonymous"        \* no valid credential: req.user is not set

subscriptionHierarchy == [free |-> 1, pro |-> 2, enterprise |-> 3]

\* canAccess with > for >=
canAccessAbove(template, userSubscription) ==
    subscriptionHierarchy[userSubscription]
        > subscriptionHierarchy[template.requirements.subscription]

canAccess(template, userSubscription) ==
    subscriptionHierarchy[userSubscription]
        >= subscriptionHierarchy[template.requirements.subscription]

planHierarchy == [free |-> 1, pro |-> 2, enterprise |-> 3]

\* requireSubscription(requiredPlan) applied to a request of a user with
\* plan userPlan: "next" or the message of the response it sends
requireSubscription(requiredPlan, userPlan) ==
    IF userPlan = Anonymous THEN "Authentication required"
    ELSE LET requiredLevel == planHierarchy[requiredPlan]
             userLevel == planHierarchy[userPlan]
         IN IF userLevel < requiredLevel THEN "subscription required" ELSE "next"

RECURSIVE GCD(_, _)
GCD(a, b) == IF b = 0 THEN a ELSE GCD(b, a % b)

\* the Number n / d, kept exact
Fraction(n, d) == [num |-> n \div GCD(n, d), den |-> d \div GCD(n, d)]

\* the rating averaged with the old average
updateRatingHalfway(ratings, newRating) ==
    [average |-> Fraction(ratings.average.num + newRating * ratings.average.den,
                          ratings.average.den * 2),
     count |-> ratings.count + 1]

\* totalRating = average * count + newRating; count += 1;
\* average = totalRating / count
updateRating(ratings, newRating) ==
    LET totalRating == Fraction(ratings.average.num * ratings.count
                                    + newRating * ratings.average.den,
                                ratings.average.den)
        count == ratings.count + 1
    IN [average |-> Fraction(totalRating.num, totalRating.den * count),
        count |-> count]

\* usageCount += 1; popularity += 1
incrementUsage(template) ==
    [template EXCEPT !.usageCount = @ + 1, !.popularity = @ + 1]

Categories == {"living", "office"}
Styles == {"modern", "traditional"}

NewTemplate(name, category, style, subscription, isActive) ==
    [name |-> name, category |-> category, style |-> style, isActive |-> isActive,
     requirements |-> [subscription |-> subscription], furniture |-> << >>,
     usageCount |-> 0, popularity |-> 0,
     ratings |-> [average |-> Fraction(0, 1), count |-> 0]]

\* the response of a template route to a requester with the given plan;
\* data: the ids of the templates it returns (Template.find(query))
TemplateAnswer(op, user, plan, id, msg, data) ==
    [op |-> op, actor |-> user, id |-> id, msg |-> msg, target |-> NoUser,
     role |-> BadRole, as |-> plan, data |-> data]

(* -------------------------- GET /api/templates ------------------------- *)

\* the tiers the main list lets a plan see
ListedTiers(plan) ==
    IF plan = Anonymous THEN {"free"}
    ELSE IF plan = "free" THEN {"free"}
    ELSE IF plan = "pro" THEN {"free", "pro"}
    ELSE Plans

ListTemplates(plan) ==
    /\ last' = TemplateAnswer("listTemplates", NoUser, plan, 0, "OK",
                  {id \in DOMAIN templates :
                     /\ templates[id].isActive
                     /\ templates[id].requirements.subscription \in ListedTiers(plan)})
    /\ UNCHANGED <<files, nextFileId, templates, projects, designs, nextProjectId, nextDesignId, now, reqs>>

(* ------- GET /api/templates/category/:category, /style/:style ---------- *)

\* Template.getByCategory(category): no identity is resolved on this route
ListByCategory(plan, category) ==
    /\ last' = TemplateAnswer("listByCategory", NoUser, plan, 0, "OK",
                  {id \in DOMAIN templates :
                     templates[id].category = category /\ templates[id].isActive})
    /\ UNCHANGED <<files, nextFileId, templates, projects, designs, nextProjectId, nextDesignId, now, reqs>>

\* Template.getByStyle(style)
ListByStyle(plan, style) ==
    /\ last' = TemplateAnswer("listByStyle", NoUser, plan, 0, "OK",
                  {id \in DOMAIN templates :
                     templates[id].style = style /\ templates[id].isActive})
    /\ UNCHANGED <<files, nextFileId, templates, projects, designs, nextProjectId, nextDesignId, now, reqs>>

(* ------------------------ GET /api/templates/:id ----------------------- *)

\* the answer of the view route before it counts the view
ViewDecision(plan, id) ==
    IF id \notin DOMAIN templates \/ ~templates[id].isActive THEN "Template not found"
    ELSE IF plan # Anonymous /\ ~canAccess(templates[id], plan)
    THEN "Upgrade your subscription to access this template"
    ELSE IF plan = Anonymous /\ templates[id].requirements.subscription # "free"
    THEN "Please sign in to access this template"
    ELSE "OK"

GetTemplate(plan, id) ==
    /\ LET msg == ViewDecision(plan, id)
       IN /\ msg = "OK" => templates[id].usageCount < MaxUsage
          /\ templates' = IF msg = "OK" THEN [templates EXCEPT ![id] = incrementUsage(@)]
                                       ELSE templates
          /\ last' = TemplateAnswer("getTemplate", NoUser, plan, id, msg,
                                    IF msg = "OK" THEN {id} ELSE {})
    /\ UNCHANGED <<files, nextFileId, projects, designs, nextProjectId, nextDesignId, now, reqs>>

\* GET /api/templates/featured and /search: router.get('/:id') is declared
\* before these routes and takes the request; findById of a string that is
\* no ObjectId throws, and the handler answers 500
ShadowedPaths == {"featured", "search"}

GetTemplateNamed(plan, path) ==
    /\ last' = TemplateAnswer(path, NoUser, plan, 0, "Server error", {})
    /\ UNCHANGED <<files, nextFileId, templates, projects, designs, nextProjectId, nextDesignId, now, reqs>>

(* --------------------- POST /api/templates/:id/use --------------------- *)

TemplateIds == 1..3             \* the ids a request names; 3 is no template
UseNames == {NoId, ""}          \* the name a use request carries

\* validation, Template.findById, canAccess
BeginUseTemplate(limit, user, plan, id, projectId, name) ==
    /\ Len(reqs) < limit
    /\ LET msg == IF name # NoId /\ ~ValidName(name) THEN "Validation failed"
                  ELSE IF id \notin DOMAIN templates \/ ~templates[id].isActive
                  THEN "Template not found"
                  ELSE IF ~canAccess(templates[id], plan)
                  THEN "Upgrade your subscription to use this template"
                  ELSE "next"
       IN IF msg = "next"
          THEN /\ reqs' = Append(reqs, [kind |-> "useTemplate", actor |-> user,
                                       plan |-> plan, id |-> id,
                                       project |-> projectId, name |-> name,
                                       template |-> templates[id], pc |-> "project"])
               /\ last' = Quiet
          ELSE /\ reqs' = reqs
               /\ last' = TemplateAnswer("useTemplate", user, plan, id, msg, {})
    /\ UNCHANGED <<files, nextFileId, templates, projects, designs, nextProjectId, nextDesignId, now>>

\* Project.findOne({ _id: projectId, $or: [owner, collaborators.user] })
UseFindProject(s) ==
    /\ s \in 1..Len(reqs)
    /\ reqs[s].kind = "useTemplate"
    /\ reqs[s].pc = "project"
    /\ LET r == reqs[s]
       IN IF findAccessibleProject(projects, r.project, r.actor)
          THEN /\ reqs' = [reqs EXCEPT ![s].pc = "save"]
               /\ last' = Quiet
          ELSE /\ reqs' = Finish(s)
               /\ last' = TemplateAnswer("useTemplate", r.actor, r.plan, r.id,
                                         "Project not found or access denied", {})
    /\ UNCHANGED <<files, nextFileId, templates, projects, designs, nextProjectId, nextDesignId, now>>

\* new Design({ project, name: name || template.name, furniture:
\* template.furniture, status: 'draft' }).save(); the template is not saved
UseSaveDesign(s) ==
    /\ s \in 1..Len(reqs)
    /\ reqs[s].kind = "useTemplate"
    /\ reqs[s].pc = "save"
    /\ nextDesignId <= MaxDesigns
    /\ LET r == reqs[s]
       IN /\ designs' = Insert(designs, nextDesignId,
                               NewDesign(r.project,
                                         IF r.name = NoId THEN r.template.name ELSE r.name,
                                         r.template.furniture))
          /\ last' = TemplateAnswer("useTemplate", r.actor, r.plan, r.id, "Created", {})
    /\ nextDesignId' = nextDesignId + 1
    /\ reqs' = Finish(s)
    /\ UNCHANGED <<files, nextFileId, templates, projects, nextProjectId, now>>

(* --------------------- POST /api/templates/:id/rate -------------------- *)

MinRating == 1
MaxRating == 5
Ratings == {2, 4, 6}            \* the ratings a request carries

RateTemplate(user, id, rating) ==
    /\ LET msg == IF rating < MinRating \/ rating > MaxRating THEN "Validation failed"
                  ELSE IF id \notin DOMAIN templates \/ ~templates[id].isActive
                  THEN "Template not found"
                  ELSE "OK"
       IN /\ msg = "OK" => templates[id].ratings.count < MaxRatings
          /\ templates' = IF msg = "OK"
                          THEN [templates EXCEPT ![id].ratings = updateRating(@, rating)]
                          ELSE templates
          /\ last' = [rating |-> rating]
                          @@ TemplateAnswer("rateTemplate", user, "unknown", id, msg, {})
    /\ UNCHANGED <<files, nextFileId, projects, designs, nextProjectId, nextDesignId, now, reqs>>

(* ----------------- a route behind requireSubscription ------------------ *)

SubscriptionGate(requiredPlan, plan) ==
    /\ last' = [TemplateAnswer("requireSubscription", NoUser, plan, 0,
                               requireSubscription(requiredPlan, plan), {})
                   EXCEPT !.target = requiredPlan]
    /\ UNCHANGED <<files, nextFileId, templates, projects, designs, nextProjectId, nextDesignId, now, reqs>>

(* ------------------------- the template routes ------------------------- *)

TemplateUsers == {"u1", "u2"}   \* the owner of project 1 and a stranger

TemplateInit ==
    /\ projects = Insert(<< >>, 1, NewProject("u1"))
    /\ designs = << >>
    /\ files = << >>
    /\ nextFileId = 1
    /\ \E first, second \in Plans : \E isActive \in BOOLEAN :
         templates = <<NewTemplate("a", "living", "modern", first, TRUE),
                       NewTemplate("b", "living", "traditional", second, isActive)>>
    /\ nextProjectId = 2
    /\ nextDesignId = 1
    /\ now = 0
    /\ reqs = << >>
    /\ last = Quiet

TemplateNext ==
    \/ \E plan \in Plans \cup {Anonymous} : ListTemplates(plan)
    \/ \E plan \in Plans \cup {Anonymous} : \E category \in Categories :
         ListByCategory(plan, category)
    \/ \E plan \in Plans \cup {Anonymous} : \E style \in Styles : ListByStyle(plan, style)
    \/ \E plan \in Plans \cup {Anonymous} : \E id \in TemplateIds : GetTemplate(plan, id)
    \/ \E plan \in Plans \cup {Anonymous} : \E path \in ShadowedPaths :
         GetTemplateNamed(plan, path)
    \/ \E user \in TemplateUsers : \E plan \in Plans : \E id \in TemplateIds :
         \E name \in UseNames : BeginUseTemplate(1, user, plan, id, 1, name)
    \/ \E s \in 1..Len(reqs) : UseFindProject(s)
    \/ \E s \in 1..Len(reqs) : UseSaveDesign(s)
    \/ \E requiredPlan \in Plans : \E plan \in Plans \cup {Anonymous} :
         SubscriptionGate(requiredPlan, plan)

TemplateSpec == TemplateInit /\ [][TemplateNext]_vars

\* sequential ratings of the templates
RatingNext ==
    \E user \in TemplateUsers : \E id \in TemplateIds : \E rating \in Ratings :
      RateTemplate(user, id, rating)

RatingSpec == TemplateInit /\ [][RatingNext]_vars

(* --------------------------- hasAccess alone --------------------------- *)

Entries == [user : Users, role : Roles]

\* the collaborator lists of at most MaxCollaborators entries
CollaboratorLists == UNION {[1..n -> Entries] : n \in 0..MaxCollaborators}

HasAccessInit ==
    /\ \E owner \in Users, collaborators \in CollaboratorLists :
          projects = Insert(<< >>, 1,
                 [NewProject(owner) EXCEPT !.collaborators = collaborators,
                                          !.version = 1 + Len(collaborators),
                                          !.vkey = Len(collaborators)])
    /\ designs = << >>
    /\ files = << >>
    /\ nextFileId = 1
    /\ templates = << >>
    /\ nextProjectId = 2
    /\ nextDesignId = 1
    /\ now = 0
    /\ reqs = << >>
    /\ last = Quiet

CheckAccess(user, requiredRole) ==
    /\ last' = Answer("hasAccess", user, 1,
                      IF hasAccess(projects[1], user, requiredRole) THEN "true" ELSE "false",
                      NoUser, requiredRole, "unknown")
    /\ UNCHANGED <<files, nextFileId, templates, projects, designs, nextProjectId, nextDesignId, now, reqs>>

HasAccessNext == \E user \in Users, requiredRole \in Roles : CheckAccess(user, requiredRole)

HasAccessSpec == HasAccessInit /\ [][HasAccessNext]_vars

(* ------------------- paginated listings: GET /api/furniture ------------ *)

MaxTotal == 250         \* documents that match a listing
MaxPage == 4            \* the page a request asks for
MaxFiles == 2           \* design files ever created

MaxLimit == 100
DefaultPage == 1
DefaultLimit == 20

\* Math.ceil(n / d) with the division rounded down
CeilDown(n, d) == n \div d

\* Math.ceil(n / d) for integers n >= 0 and d > 0
Ceil(n, d) == IF n % d = 0 THEN n \div d ELSE n \div d + 1

\* the query strings of a listing: page and limit are optional
Queries ==
    [page : 0..MaxPage, limit : {0, 1, DefaultLimit, MaxLimit - 1, MaxLimit, MaxLimit + 1}]
      \cup [page : 0..MaxPage] \cup [limit : {1, MaxLimit}] \cup {<< >>}

\* query('page').optional().isInt({ min: 1 }),
\* query('limit').optional().isInt({ min: 1, max: 100 })
ValidQuery(query) ==
    /\ "page" \in DOMAIN query => query.page >= 1
    /\ "limit" \in DOMAIN query => query.limit >= 1 /\ query.limit <= MaxLimit

\* parseInt(req.query.page) || 1, parseInt(req.query.limit) || 20
PageOf(query) ==
    IF "page" \in DOMAIN query /\ query.page # 0 THEN query.page ELSE DefaultPage

LimitOf(query) ==
    IF "limit" \in DOMAIN query /\ query.limit # 0 THEN query.limit ELSE DefaultLimit

\* the pagination object of the response
Pagination(total, page, limit) ==
    [currentPage |-> page,
     totalPages |-> Ceil(total, limit),
     totalItems |-> total,
     itemsPerPage |-> limit,
     hasNextPage |-> page < Ceil(total, limit),
     hasPrevPage |-> page > 1]

NoPagination == Pagination(0, 0, 1)

\* the response of a listing
ListAnswer(msg, pagination) ==
    [op |-> "listFurniture", actor |-> NoUser, id |-> 0, msg |-> msg,
     target |-> NoUser, role |-> BadRole, as |-> "unknown",
     pagination |-> pagination]

\* a listing request that has counted `total` documents matching its filters
PaginationInit ==
    /\ projects = << >>
    /\ designs = << >>
    /\ files = << >>
    /\ nextFileId = 1
    /\ templates = << >>
    /\ nextProjectId = 1
    /\ nextDesignId = 1
    /\ now = 0
    /\ \E total \in 0..MaxTotal : \E query \in Queries :
         reqs = <<[kind |-> "list", total |-> total, query |-> query]>>
    /\ last = Quiet

ListFurniture(s) ==
    /\ s \in 1..Len(reqs)
    /\ reqs[s].kind = "list"
    /\ LET r == reqs[s]
       IN last' = IF ValidQuery(r.query)
                  THEN ListAnswer("OK", Pagination(r.total, PageOf(r.query), LimitOf(r.query)))
                  ELSE ListAnswer("Validation failed", NoPagination)
    /\ reqs' = Finish(s)
    /\ UNCHANGED <<files, nextFileId, templates, projects, designs, nextProjectId, nextDesignId, now>>

PaginationNext == \E s \in 1..Len(reqs) : ListFurniture(s)

PaginationSpec == PaginationInit /\ [][PaginationNext]_vars

(* ------------- concurrent POST /api/designs/:id/furniture -------------- *)

\* the owner adds furniture to a design in requests that overlap
AddFurnitureNext ==
    \/ BeginCreateDesign(1, "u1", 1)
    \/ \E s \in Slots, name \in Names : InsertDesign(s, name, << >>)
    \/ \E id \in 1..MaxDesigns : BeginDesignWrite(MaxInflight, "u1", id)
    \/ \E s \in Slots, furnitureData \in FurnitureData : AddFurniture(s, furnitureData)
    \/ Tick

AddFurnitureSpec == DesignInit /\ [][AddFurnitureNext]_vars

(* ------------------- authenticateToken, optionalAuth ------------------- *)

\* the stored users: u1 is active, u2 is deactivated, no other user exists
Accounts ==
    [u1 |-> [isActive |-> TRUE, subscription |-> [plan |-> "pro"]],
     u2 |-> [isActive |-> FALSE, subscription |-> [plan |-> "enterprise"]]]

\* the Authorization header: absent, or a token that is or is not a JWT of
\* this server, expired or not, naming a user id
NoToken == [form |-> "absent", expired |-> FALSE, userId |-> NoUser]

Tokens ==
    {NoToken} \cup [form : {"signed", "malformed"}, expired : BOOLEAN,
                    userId : {"u1", "u2", "u3"}]

\* jwt.verify(token, secret): the payload is read, or an error is thrown
jwtVerify(token) ==
    IF token.form = "malformed" THEN "JsonWebTokenError"
    ELSE IF token.expired THEN "TokenExpiredError"
    ELSE "decoded"

\* authenticateToken without the test of user.isActive
authenticateTokenAnyAccount(token) ==
    IF token.form = "absent" THEN "Access token required"
    ELSE IF jwtVerify(token) = "JsonWebTokenError" THEN "Invalid token"
    ELSE IF jwtVerify(token) = "TokenExpiredError" THEN "Token expired"
    ELSE IF token.userId \notin DOMAIN Accounts THEN "Invalid token - user not found"
    ELSE "next"

\* authenticateToken: "next" (req.user is the user the token names) or the
\* message of the 401 it sends
authenticateToken(token) ==
    IF token.form = "absent" THEN "Access token required"
    ELSE IF jwtVerify(token) = "JsonWebTokenError" THEN "Invalid token"
    ELSE IF jwtVerify(token) = "TokenExpiredError" THEN "Token expired"
    ELSE IF token.userId \notin DOMAIN Accounts THEN "Invalid token - user not found"
    ELSE IF ~Accounts[token.userId].isActive THEN "Account is deactivated"
    ELSE "next"

\* optionalAuth: req.user when it calls next(), NoUser when it sets none
optionalAuth(token) ==
    IF token.form = "absent" THEN NoUser
    ELSE IF jwtVerify(token) # "decoded" THEN NoUser
    ELSE IF token.userId \in DOMAIN Accounts /\ Accounts[token.userId].isActive
    THEN token.userId
    ELSE NoUser

\* a request arrives with its Authorization header
ReceiveRequest(route, token) ==
    /\ reqs = << >>
    /\ reqs' = <<[kind |-> "received", route |-> route, token |-> token]>>
    /\ last' = Quiet
    /\ UNCHANGED <<files, nextFileId, templates, projects, designs, nextProjectId, nextDesignId, now>>

\* POST /api/projects behind authenticateToken
AuthenticatedCreateProject(s) ==
    /\ s \in 1..Len(reqs)
    /\ reqs[s].kind = "received"
    /\ reqs[s].route = "createProject"
    /\ LET msg == authenticateToken(reqs[s].token)
           user == reqs[s].token.userId
       IN IF msg = "next"
          THEN /\ nextProjectId <= MaxProjects
               /\ projects' = Insert(projects, nextProjectId, NewProject(user))
               /\ nextProjectId' = nextProjectId + 1
               /\ last' = Answer("createProject", user, nextProjectId, "Created",
                                 NoUser, BadRole, "unknown")
          ELSE /\ last' = Answer("createProject", NoUser, 0, msg, NoUser, BadRole, "unknown")
               /\ UNCHANGED <<projects, nextProjectId>>
    /\ reqs' = Finish(s)
    /\ UNCHANGED <<files, nextFileId, templates, designs, nextDesignId, now>>

\* GET /api/templates behind optionalAuth
OptionalAuthListTemplates(s) ==
    /\ s \in 1..Len(reqs)
    /\ reqs[s].kind = "received"
    /\ reqs[s].route = "listTemplates"
    /\ LET user == optionalAuth(reqs[s].token)
           plan == IF user = NoUser THEN Anonymous ELSE Accounts[user].subscription.plan
       IN last' = TemplateAnswer("listTemplates", user, plan, 0, "OK",
                    {id \in DOMAIN templates :
                       /\ templates[id].isActive
                       /\ templates[id].requirements.subscription \in ListedTiers(plan)})
    /\ reqs' = Finish(s)
    /\ UNCHANGED <<files, nextFileId, templates, projects, designs, nextProjectId, nextDesignId, now>>

AuthRoutes == {"createProject", "listTemplates"}

AuthInit ==
    /\ projects = << >>
    /\ designs = << >>
    /\ files = << >>
    /\ nextFileId = 1
    /\ \E first, second \in Plans :
         templates = <<NewTemplate("a", "living", "modern", first, TRUE),
                       NewTemplate("b", "living", "traditional", second, TRUE)>>
    /\ nextProjectId = 1
    /\ nextDesignId = 1
    /\ now = 0
    /\ reqs = << >>
    /\ last = Quiet

AuthNext ==
    \/ \E route \in AuthRoutes : \E token \in Tokens : ReceiveRequest(route, token)
    \/ \E s \in 1..Len(reqs) : AuthenticatedCreateProject(s)
    \/ \E s \in 1..Len(reqs) : OptionalAuthListTemplates(s)

AuthSpec == AuthInit /\ [][AuthNext]_vars

(* -------------------- POST /api/designs/:id/duplicate ------------------ *)

\* owner, or a collaborator of any role, or the design is public
CanDuplicateDesign(project, design, user) ==
    \/ project.owner = user
    \/ IsCollaborator(project.collaborators, user)
    \/ design.isPublic

\* Design.findById(id).populate('project'), the access test
BeginDuplicateDesign(limit, user, id) ==
    /\ Len(reqs) < limit
    /\ id \in 1..(nextDesignId - 1)
    /\ LET answer(msg, as) == Answer("duplicateDesign", user, id, msg, NoUser, BadRole, as)
       IN IF id \notin DOMAIN designs
          THEN reqs' = reqs /\ last' = answer("Design not found", "unknown")
          ELSE IF designs[id].project \notin DOMAIN projects
          THEN reqs' = reqs /\ last' = answer("Server error", "unknown")
          ELSE LET project == projects[designs[id].project]
               IN IF ~CanDuplicateDesign(project, designs[id], user)
                  THEN reqs' = reqs /\ last' = answer("Access denied", Standing(project, user))
                  ELSE /\ reqs' = Append(reqs, [kind |-> "duplicateDesign", actor |-> user,
                                               id |-> id, design |-> designs[id],
                                               project |-> Loaded(project),
                                               pc |-> "save"])
                       /\ last' = Quiet
    /\ UNCHANGED <<files, nextFileId, templates, projects, designs, nextProjectId, nextDesignId, now>>

\* new Design({ project: design.project, name: name || `${design.name}
\* (Copy)`, version: '1.0.0', furniture: design.furniture, status: 'draft' })
\* .save()
SaveDuplicateDesign(s, name) ==
    /\ s \in 1..Len(reqs)
    /\ reqs[s].kind = "duplicateDesign"
    /\ nextDesignId <= MaxDesigns + MaxCopies
    /\ LET r == reqs[s]
       IN /\ designs' = Insert(designs, nextDesignId,
                               DesignDocument(r.design.project, DuplicateName(name, r.design),
                                              r.design.furniture, "draft"))
          /\ last' = Answer("duplicateDesign", r.actor, nextDesignId, "Created",
                            NoUser, BadRole, Standing(r.project, r.actor))
    /\ nextDesignId' = nextDesignId + 1
    /\ reqs' = Finish(s)
    /\ UNCHANGED <<files, nextFileId, templates, projects, nextProjectId, now>>

(* ------- the design-creating routes against DELETE /api/projects/:id --- *)

Creators == {"u2", "u3"}        \* a collaborator and a stranger

\* project 1 of u1 with the viewer u2, and a free template
CreationInit ==
    /\ projects = Insert(<< >>, 1,
          [NewProject("u1") EXCEPT !.collaborators = <<[user |-> "u2", role |-> "viewer"]>>,
                                   !.version = 2, !.vkey = 1])
    /\ designs = << >>
    /\ files = << >>
    /\ nextFileId = 1
    /\ templates = <<NewTemplate("a", "living", "modern", "free", TRUE)>>
    /\ nextProjectId = 2
    /\ nextDesignId = 1
    /\ now = 0
    /\ reqs = << >>
    /\ last = Quiet

CreationNext ==
    \/ \E u \in Creators : BeginCreateDesign(MaxInflight, u, 1)
    \/ \E s \in Slots, name \in Names : InsertDesign(s, name, << >>)
    \/ \E u \in Creators, id \in 1..MaxDesigns : BeginDuplicateDesign(MaxInflight, u, id)
    \/ \E s \in Slots, name \in {NoId, "b"} : SaveDuplicateDesign(s, name)
    \/ \E u \in Creators : BeginUseTemplate(MaxInflight, u, "free", 1, 1, NoId)
    \/ \E s \in Slots : UseFindProject(s)
    \/ \E s \in Slots : UseSaveDesign(s)
    \/ BeginProjectRequest(MaxInflight, "write", "u1", 1)
    \/ \E s \in Slots : DeleteProjectDesigns(s)
    \/ \E s \in Slots : DeleteProjectDocument(s)

CreationSpec == CreationInit /\ [][CreationNext]_vars

(* ------------------------ /api/design-files ---------------------------- *)

FileUsers == {"u1", "u2"}
Scenes == {"s1", "s2"}          \* sceneData of a file
MalformedId == 0                \* a path parameter that is no ObjectId
FileIds == MalformedId..(MaxFiles + 1)

\* the files a response carries, each with its id
Shown(ids) ==
    {[id |-> id, user |-> files[id].user, name |-> files[id].name,
      sceneData |-> files[id].sceneData] : id \in ids}

FileAnswer(op, user, id, msg, data) ==
    [op |-> op, actor |-> user, id |-> id, msg |-> msg, target |-> NoUser,
     role |-> BadRole, as |-> "unknown", data |-> data]

\* the test file.user.toString() !== userId left out
OwnsAnyFile(file, userId) == TRUE

\* !(file.user.toString() !== userId)
OwnsFile(file, userId) == file.user = userId

\* DesignFile.findById(req.params.id) and the test that follows it: "found",
\* or the message of the answer
FindOwnFile(id, userId) ==
    IF id = MalformedId THEN "Server error"
    ELSE IF id \notin DOMAIN files \/ ~OwnsFile(files[id], userId) THEN "File not found"
    ELSE "found"

\* GET /api/design-files
ListFiles(user) ==
    /\ last' = FileAnswer("listFiles", user, 0, "OK",
                          Shown({id \in DOMAIN files : files[id].user = user}))
    /\ UNCHANGED <<files, nextFileId, templates, projects, designs, nextProjectId,
                   nextDesignId, now, reqs>>

\* GET /api/design-files/:id
GetFile(user, id) ==
    /\ LET msg == FindOwnFile(id, user)
       IN last' = IF msg = "found" THEN FileAnswer("getFile", user, id, "OK", Shown({id}))
                                   ELSE FileAnswer("getFile", user, id, msg, {})
    /\ UNCHANGED <<files, nextFileId, templates, projects, designs, nextProjectId,
                   nextDesignId, now, reqs>>

\* POST /api/design-files
CreateFile(user, name, sceneData) ==
    /\ nextFileId <= MaxFiles
    /\ IF ~ValidName(name) \/ sceneData = NoId
       THEN /\ last' = FileAnswer("createFile", user, 0, "Validation failed", {})
            /\ UNCHANGED <<files, nextFileId>>
       ELSE /\ files' = Insert(files, nextFileId,
                               [user |-> user, name |-> name, sceneData |-> sceneData])
            /\ nextFileId' = nextFileId + 1
            /\ last' = FileAnswer("createFile", user, nextFileId, "Created", {})
    /\ UNCHANGED <<templates, projects, designs, nextProjectId, nextDesignId, now, reqs>>

\* PUT /api/design-files/:id
UpdateFile(user, id, sceneData) ==
    /\ LET msg == FindOwnFile(id, user)
       IN IF msg = "found"
          THEN /\ files' = [files EXCEPT ![id].sceneData =
                               IF sceneData = NoId THEN @ ELSE sceneData]
               /\ last' = [FileAnswer("updateFile", user, id, "OK", {})
                             EXCEPT !.data = {[id |-> id, user |-> files'[id].user,
                                               name |-> files'[id].name,
                                               sceneData |-> files'[id].sceneData]}]
          ELSE /\ files' = files
               /\ last' = FileAnswer("updateFile", user, id, msg, {})
    /\ UNCHANGED <<nextFileId, templates, projects, designs, nextProjectId,
                   nextDesignId, now, reqs>>

\* DELETE /api/design-files/:id
DeleteFile(user, id) ==
    /\ LET msg == FindOwnFile(id, user)
       IN IF msg = "found"
          THEN /\ files' = Remove(files, id)
               /\ last' = FileAnswer("deleteFile", user, id, "OK", {})
          ELSE /\ files' = files
               /\ last' = FileAnswer("deleteFile", user, id, msg, {})
    /\ UNCHANGED <<nextFileId, templates, projects, designs, nextProjectId,
                   nextDesignId, now, reqs>>

FileNext ==
    \/ \E user \in FileUsers : ListFiles(user)
    \/ \E user \in FileUsers, id \in FileIds : GetFile(user, id)
    \/ \E user \in FileUsers, name \in {"", "a"}, sceneData \in Scenes \cup {NoId} :
          CreateFile(user, name, sceneData)
    \/ \E user \in FileUsers, id \in FileIds, sceneData \in Scenes \cup {NoId} :
          UpdateFile(user, id, sceneData)
    \/ \E user \in FileUsers, id \in FileIds : DeleteFile(user, id)

FileSpec == Init /\ [][FileNext]_vars

(* ---------------- the routes that write projects and designs ----------- *)

\* request bodies that also name an owner or a project
OwnerBodies == [fields : {{"owner"}, {"isPublic", "owner"}}, isPublic : {TRUE}, owner : {"u3"}]

ProjectBodies ==
    [fields : {{"project"}, {"name", "project"}}, name : {"b"}, furniture : {<< >>},
     status : {"completed"}, project : {2}]

\* the modifying routes, served one at a time, on project 1 of u1 with the
\* collaborator u2
OwnershipNext ==
    \/ BeginProjectRequest(1, "write", "u1", 1)
    \/ \E s \in Slots, body \in OwnerBodies : UpdateProject(s, body)
    \/ \E s \in Slots : AddCollaborator(s, "u3", "editor")
    \/ \E s \in Slots : UpdateCollaborator(s, "u2", "admin")
    \/ \E s \in Slots : RemoveCollaborator(s, "u3")
    \/ \E s \in Slots : DuplicateSaveProject(s, NoId)
    \/ \E s \in Slots : DuplicateFindDesigns(s)
    \/ \E s \in Slots : DuplicateCopyDesign(s)
    \/ \E s \in Slots : DuplicateAnswer(s)
    \/ BeginCreateDesign(1, "u1", 1)
    \/ \E s \in Slots : InsertDesign(s, "a", << >>)
    \/ \E id \in 1..MaxDesigns : BeginDesignWrite(1, "u1", id)
    \/ \E s \in Slots, body \in ProjectBodies : UpdateDesign(s, body)
    \/ \E s \in Slots : AddFurniture(s, [id |-> "f1", price |-> 10])
    \/ \E s \in Slots : UpdateFurniture(s, "f1", 0)
    \/ \E s \in Slots : RemoveFurniture(s, "f1")
    \/ \E id \in 1..MaxDesigns : BeginDuplicateDesign(1, "u1", id)
    \/ \E s \in Slots : SaveDuplicateDesign(s, NoId)

OwnershipSpec == CreationInit /\ [][OwnershipNext]_vars

(* ------------------------------- claims -------------------------------- *)

ProjectRemoved(p) == p \in DOMAIN projects /\ p \notin DOMAIN projects'

\* C1: a project leaves the store only in the last step of a delete request
\* of its owner; the delete request of the owner is answered 200 and the
\* project is gone; the delete request of a collaborator of any role is
\* answered 403 and the step leaves the projects and the designs as they were.
C1_DeleteOnlyByOwner ==
    [][ /\ \A p \in DOMAIN projects :
             ProjectRemoved(p) =>
                /\ last'.op = "deleteProject" /\ last'.id = p
                /\ last'.actor = projects[p].owner
        /\ (last'.op = "deleteProject" /\ last'.as = "owner") =>
                /\ StatusOf(last'.msg) = 200
                /\ last'.id \notin DOMAIN projects'
        /\ (last'.op = "deleteProject" /\ last'.as \in Roles) =>
                /\ StatusOf(last'.msg) = 403
                /\ last'.msg = "Only project owners can delete projects"
                /\ projects' = projects /\ designs' = designs
        /\ \A d \in DOMAIN designs :
             d \notin DOMAIN designs' =>
                \E s \in 1..Len(reqs) : /\ reqs[s].kind = "project"
                                        /\ reqs[s].id = designs[d].project
                                        /\ reqs[s].actor = reqs[s].resource.owner
      ]_vars

\* an admin collaborator was refused the deletion of a project that has a design
C1_Witness ==
    /\ last.op = "deleteProject" /\ last.as = "admin"
    /\ last.msg = "Only project owners can delete projects"
    /\ last.id \in DOMAIN projects
    /\ \E d \in DOMAIN designs : designs[d].project = last.id

DesignWriteOps ==
    {"updateDesign", "deleteDesign", "addFurniture", "updateFurniture", "removeFurniture"}

DesignChanged(d) ==
    d \in DOMAIN designs /\ (d \notin DOMAIN designs' \/ designs'[d] # designs[d])

\* C2: a stored design is changed or removed only by a step that answers 200
\* to an update, delete or furniture request of the owner of its project or
\* of an editor or admin collaborator; the write request of a viewer or of a
\* non-member is answered 403 and the step leaves the designs as they were.
C2_DesignWriteNeedsEditor ==
    [][ /\ \A d \in DOMAIN designs :
             DesignChanged(d) =>
                /\ last'.op \in DesignWriteOps /\ last'.id = d
                /\ StatusOf(last'.msg) = 200
                /\ last'.as \in {"owner", "editor", "admin"}
        /\ (last'.op \in DesignWriteOps \cup {"writeDesign"} /\ last'.as \in {"viewer", "none"}) =>
                /\ last'.msg = "Access denied" /\ StatusOf(last'.msg) = 403
                /\ designs' = designs
      ]_vars

\* a viewer was refused the write of a stored design
C2_Witness ==
    /\ last.op = "writeDesign" /\ last.as = "viewer" /\ last.msg = "Access denied"
    /\ last.id \in DOMAIN designs

ProjectWriteOps ==
    {"updateProject", "addCollaborator", "updateCollaborator", "removeCollaborator"}

\* C3: every request that updates the project, adds a collaborator, updates
\* a role or removes a collaborator and comes from a viewer is answered 403
\* and leaves the projects as they were.
C3_ViewerCannotMutate ==
    [][(last'.op \in ProjectWriteOps \cup {"write"} /\ last'.as = "viewer") =>
            (StatusOf(last'.msg) = 403 /\ projects' = projects)
      ]_vars

RoleAtMost ==
    {<<"viewer", "viewer">>, <<"viewer", "editor">>, <<"viewer", "admin">>,
     <<"editor", "editor">>, <<"editor", "admin">>, <<"admin", "admin">>}

\* C4: hasAccess(user, r1) is true for the owner whatever r1, false for a
\* user with no collaborator entry, and for a collaborator whose (first)
\* entry has role r2 it is true exactly when r1 <= r2 in viewer < editor < admin.
C4_HasAccessMonotone ==
    last.op = "hasAccess" =>
        LET project == projects[last.id]
            c == project.collaborators
            mine == {i \in 1..Len(c) : c[i].user = last.actor}
            first == CHOOSE i \in mine : \A j \in mine : i <= j
        IN IF last.actor = project.owner THEN last.msg = "true"
           ELSE IF mine = {} THEN last.msg = "false"
           ELSE (last.msg = "true") <=> (<<last.role, c[first].role>> \in RoleAtMost)

\* an admin collaborator was granted what an editor is required for
C4_Witness ==
    /\ last.op = "hasAccess" /\ last.role = "editor" /\ last.msg = "true"
    /\ last.actor # projects[last.id].owner
    /\ \E i \in 1..Len(projects[last.id].collaborators) :
          projects[last.id].collaborators[i] = [user |-> last.actor, role |-> "admin"]

\* C5: a request on a project of a user who is neither its owner nor a
\* collaborator gets past the middleware only as a GET of a public project,
\* and then it is the read; otherwise it is answered 403, and no step of
\* such a request changes a project or a design.
C5_OutsiderOnlyReadsPublic ==
    [][ /\ (Len(reqs') > Len(reqs) /\ reqs'[Len(reqs')].kind = "project"
            /\ Standing(reqs'[Len(reqs')].resource, reqs'[Len(reqs')].actor) = "none") =>
                /\ reqs'[Len(reqs')].method = "GET"
                /\ projects[reqs'[Len(reqs')].id].isPublic
        /\ (last'.as = "none" /\ last'.op \in {"GET", "write"}) =>
                /\ last'.msg = "Access denied"
                /\ ~(last'.op = "GET" /\ projects[last'.id].isPublic)
                /\ projects' = projects /\ designs' = designs
        /\ (last'.as = "none" /\ last'.op \notin {"GET", "write"}) =>
                /\ \/ last'.op = "getProject"
                   \/ last'.op = "createDesign" /\ StatusOf(last'.msg) = 404
                /\ projects' = projects /\ designs' = designs
      ]_vars

\* a user who is no member read a public project
C5_Witness ==
    /\ last.op = "getProject" /\ last.as = "none" /\ last.msg = "OK"
    /\ last.id \in DOMAIN projects /\ projects[last.id].isPublic

SelfRemovalMessage == "You cannot remove yourself from the project"

\* C6: a remove-collaborator request whose target is the acting user is
\* answered 400 with a message no other answer carries, whatever the standing
\* of the actor, and the step leaves the projects as they were.
C6_RemoveSelfRejected ==
    [][ /\ (last'.op = "removeCollaborator" /\ last'.target = last'.actor) =>
                /\ last'.msg = SelfRemovalMessage /\ StatusOf(last'.msg) = 400
                /\ projects' = projects
        /\ last'.msg = SelfRemovalMessage =>
                (last'.op = "removeCollaborator" /\ last'.target = last'.actor)
      ]_vars

\* a listed admin collaborator asked to remove their own entry and was refused
C6_Witness ==
    /\ last.op = "removeCollaborator" /\ last.target = last.actor
    /\ last.as = "admin" /\ last.msg = SelfRemovalMessage
    /\ last.id \in DOMAIN projects
    /\ IsCollaborator(projects[last.id].collaborators, last.actor)

EntriesOf(collaborators, user) ==
    {i \in 1..Len(collaborators) : collaborators[i].user = user}

\* C7: in every reachable state each user has at most one entry in the
\* collaborators of each project.
C7_AtMostOneEntry ==
    \A p \in DOMAIN projects, u \in Users :
        Cardinality(EntriesOf(projects[p].collaborators, u)) <= 1

\* C8: in every reachable state the owner of a project has no entry in its
\* collaborators.
C8_OwnerNotListed ==
    \A p \in DOMAIN projects :
        EntriesOf(projects[p].collaborators, projects[p].owner) = {}

\* C9: an add-collaborator request that names an existing user u and a valid
\* role r on a stored project is answered without error, and after it the
\* project has exactly one entry for u, with role r, whether u was absent,
\* present or removed before.
C9_AddIsUpsert ==
    [][(/\ last'.op = "addCollaborator"
        /\ last'.target \in Users /\ last'.role \in Roles
        /\ last'.id \in DOMAIN projects') =>
            LET c == projects'[last'.id].collaborators
                mine == EntriesOf(c, last'.target)
            IN /\ StatusOf(last'.msg) = 200
               /\ Cardinality(mine) = 1
               /\ \A i \in mine : c[i].role = last'.role
      ]_vars

\* C10: an update-role request whose target has no entry in the collaborators
\* is answered 404 'Collaborator not found' and the step leaves the projects
\* as they were; one whose target has an entry and that is answered 200
\* leaves the project as it was but for the role of that entry, which is the
\* role asked for, and the version the save increments; any other answer
\* leaves the projects as they were.
C10_UpdateRoleOnlyThatEntry ==
    [][last'.op = "updateCollaborator" =>
          LET p == last'.id
              c == projects[p].collaborators
              mine == EntriesOf(c, last'.target)
          IN /\ p \in DOMAIN projects
             /\ DOMAIN projects' = DOMAIN projects
             /\ \A q \in DOMAIN projects \ {p} : projects'[q] = projects[q]
             /\ IF mine = {}
                THEN /\ last'.msg = "Collaborator not found" /\ StatusOf(last'.msg) = 404
                     /\ projects' = projects
                ELSE /\ last'.msg # "Collaborator not found"
                     /\ StatusOf(last'.msg) # 200 => projects' = projects
                     /\ StatusOf(last'.msg) = 200 =>
                          \E i \in mine :
                             /\ projects'[p].collaborators = [c EXCEPT ![i].role = last'.role]
                             /\ projects'[p].owner = projects[p].owner
                             /\ projects'[p].isPublic = projects[p].isPublic
                             /\ projects'[p].version \in {projects[p].version, projects[p].version + 1}
      ]_vars

\* the role of one of two collaborators was changed, and a request that named
\* a user with no entry was answered 404
C10_Witness ==
    /\ last.op = "updateCollaborator" /\ last.msg = "OK" /\ last.role = "admin"
    /\ last.id \in DOMAIN projects
    /\ LET c == projects[last.id].collaborators
       IN /\ Len(c) = 2
          /\ \E i, j \in 1..Len(c) : /\ c[i] = [user |-> last.target, role |-> "admin"]
                                     /\ c[j].user # last.target /\ c[j].role # "admin"

\* the step in which the handler of a duplicate request runs newProject.save()
DuplicateHandlerStarts ==
    /\ last'.op = "duplicateProject"
    /\ \E s \in 1..Len(reqs) :
          /\ reqs[s].kind = "project" /\ reqs[s].pc = "handler"
          /\ Len(reqs') < Len(reqs) \/ reqs'[s].kind = "duplicate"

\* C11: the handler of a duplicate request stores exactly one new project,
\* owned by the acting user, with status draft, no collaborators and, as its
\* name, the name given in the request or else the name of the source
\* followed by " (Copy)"; the projects already stored stay as they were.
C11_DuplicateProjectCreatesCopy ==
    [][DuplicateHandlerStarts =>
          LET new == DOMAIN projects' \ DOMAIN projects
          IN /\ Cardinality(new) = 1
             /\ \A q \in new :
                   /\ projects'[q].owner = last'.actor
                   /\ projects'[q].status = "draft"
                   /\ projects'[q].collaborators = << >>
                   /\ projects'[q].name =
                         IF last'.target \in {NoId, ""}
                         THEN projects[last'.id].name \o " (Copy)"
                         ELSE last'.target
             /\ \A p \in DOMAIN projects :
                   p \in DOMAIN projects' /\ projects'[p] = projects[p]
      ]_vars

DesignIdsOf(projectId) == {d \in DOMAIN designs : designs[d].project = projectId}

\* C12: when a duplicate request is answered 201, the designs of the new
\* project correspond one to one to the designs of the source, each with
\* status draft, the initial version and the name and furniture of its
\* source; no step of a duplicate request changes or removes a stored design.
C12_DuplicateProjectCopiesDesigns ==
    [][ /\ last'.op = "duplicateProject" =>
              \A d \in DOMAIN designs : d \in DOMAIN designs' /\ designs'[d] = designs[d]
        /\ last'.msg = "Project duplicated successfully" =>
              \E s \in 1..Len(reqs) :
                 /\ reqs[s].kind = "duplicate" /\ reqs[s].pc = "copy"
                 /\ reqs[s].id = last'.id /\ reqs[s].actor = last'.actor
                 /\ LET source == DesignIdsOf(reqs[s].id)
                        copies == DesignIdsOf(reqs[s].copy)
                    IN \E f \in [copies -> source] :
                          /\ \A d \in source : \E c \in copies : f[c] = d
                          /\ \A c1, c2 \in copies : f[c1] = f[c2] => c1 = c2
                          /\ \A c \in copies :
                                /\ designs[c].status = "draft"
                                /\ designs[c].version = InitialVersion
                                /\ designs[c].name = designs[f[c]].name
                                /\ designs[c].furniture = designs[f[c]].furniture
      ]_vars

\* a viewer duplicated a project with two designs, one of them completed
\* and furnished
C12_Witness ==
    /\ last.op = "duplicateProject" /\ last.msg = "Project duplicated successfully"
    /\ last.as = "viewer"
    /\ Cardinality(DesignIdsOf(last.id)) = 2
    /\ \E d \in DesignIdsOf(last.id) :
          designs[d].status = "completed" /\ designs[d].furniture # << >>
    /\ \E q \in DOMAIN projects :
          /\ q # last.id /\ projects[q].owner = last.actor
          /\ Cardinality(DesignIdsOf(q)) = 2

\* C13: once the delete request of its owner has removed a project, no
\* design whose project reference is that project is stored.
C13_DeleteCascades ==
    \A p \in 1..(nextProjectId - 1) :
        p \notin DOMAIN projects => DesignIdsOf(p) = {}

\* C14: in every stored design metadata.totalCost is the sum of the prices
\* of its furniture items and metadata.furnitureCount is their number.
C14_MetadataMatchesFurniture ==
    \A d \in DOMAIN designs :
        /\ designs[d].metadata.totalCost = SumPrices(designs[d].furniture)
        /\ designs[d].metadata.furnitureCount = Len(designs[d].furniture)

RECURSIVE SumOfTerms(_)
SumOfTerms(terms) ==
    IF terms = << >> THEN 0 ELSE Head(terms) + SumOfTerms(Tail(terms))

\* twice the signed area of a polygon: the cyclic sum of
\* x_i * y_(i+1) - x_(i+1) * y_i
CyclicCrossSum(points) ==
    LET n == Len(points)
        succ(i) == IF i = n THEN 1 ELSE i + 1
    IN SumOfTerms([i \in 1..n |->
            points[i].x * points[succ(i)].y - points[succ(i)].x * points[i].y])

\* the area of a list of rooms, in halves: rooms of fewer than 3 points count 0
AreaInHalves(rooms) ==
    SumOfTerms([k \in 1..Len(rooms) |->
        IF Len(rooms[k].points) >= 3
        THEN (IF CyclicCrossSum(rooms[k].points) < 0
              THEN 0 - CyclicCrossSum(rooms[k].points)
              ELSE CyclicCrossSum(rooms[k].points))
        ELSE 0])

Rectangle == <<[x |-> 0, y |-> 0], [x |-> 4, y |-> 0], [x |-> 4, y |-> 3], [x |-> 0, y |-> 3]>>

\* C15: the totalArea a save stores is the sum over the rooms of at least 3
\* points of half the absolute value of their cyclic shoelace sum; a room of
\* fewer than 3 points and an empty list of rooms give 0; the rectangle
\* (0,0),(4,0),(4,3),(0,3) gives 12 (24 halves).
C15_TotalAreaIsShoelace ==
    last.op = "saveDesign" =>
        LET rooms == designs[last.id].elements.rooms
            area == designs[last.id].metadata.totalArea
        IN /\ area = AreaInHalves(rooms)
           /\ rooms = << >> => area = 0
           /\ (\A k \in 1..Len(rooms) : Len(rooms[k].points) < 3) => area = 0
           /\ rooms = <<[points |-> Rectangle]>> => area = 2 * 12

\* a design with the rectangle, walked clockwise, and a room of 2 points
\* was saved with area 12
C15_Witness ==
    /\ last.op = "saveDesign"
    /\ designs[last.id].elements.rooms =
          <<[points |-> <<Rectangle[4], Rectangle[3], Rectangle[2], Rectangle[1]>>],
            [points |-> <<Rectangle[1], Rectangle[3]>>]>>
    /\ designs[last.id].metadata.totalArea = 2 * 12

\* C16: every request answered 200 that changed a stored project (update of
\* its fields, add, update-role or remove of a collaborator) left its
\* version one higher, and a project is created with the initial version.
C16_ModificationIncrementsVersion ==
    [][ /\ (/\ last'.op \in ProjectWriteOps /\ StatusOf(last'.msg) = 200
            /\ last'.id \in DOMAIN projects /\ last'.id \in DOMAIN projects'
            /\ projects'[last'.id] # projects[last'.id]) =>
                projects'[last'.id].version = projects[last'.id].version + 1
        /\ last'.op = "createProject" => projects'[last'.id].version = 1
      ]_vars

tierRank == [free |-> 1, pro |-> 2, enterprise |-> 3]

\* C17: with rank free = 1, pro = 2, enterprise = 3, canAccess lets a plan
\* reach a template exactly when the rank of the plan is at least the rank of
\* the tier the template requires, for all nine pairs, and the
\* requireSubscription middleware passes a request on exactly under the same
\* condition
C17_TierComparison ==
    [][ /\ (last'.op = "getTemplate" /\ last'.as \in Plans
                /\ last'.msg # "Template not found")
           => (last'.msg = "OK"
                 <=> tierRank[last'.as]
                       >= tierRank[templates[last'.id].requirements.subscription])
        /\ (last'.op = "useTemplate" /\ last'.msg # "Validation failed"
                /\ last'.id \in DOMAIN templates /\ templates[last'.id].isActive)
           => (last'.msg # "Upgrade your subscription to use this template"
                 <=> tierRank[last'.as]
                       >= tierRank[templates[last'.id].requirements.subscription])
        /\ (last'.op = "requireSubscription" /\ last'.as \in Plans)
           => (last'.msg = "next" <=> tierRank[last'.as] >= tierRank[last'.target]) ]_vars

\* a pro user has viewed a template of the pro tier
C17_Witness ==
    /\ last.op = "getTemplate"
    /\ last.as = "pro"
    /\ last.msg = "OK"
    /\ templates[last.id].requirements.subscription = "pro"

CatalogOps == {"listTemplates", "listByCategory", "listByStyle", "featured", "search"}

\* C18: every template a catalog query (main list, by category, by style,
\* search, featured) returns requires a tier that the plan of the requester
\* can access, and a request with no identity is shown free templates only
C18_CatalogShowsAccessibleTiers ==
    [][ last'.op \in CatalogOps
        => \A id \in last'.data :
             IF last'.as = Anonymous
             THEN templates[id].requirements.subscription = "free"
             ELSE tierRank[last'.as]
                    >= tierRank[templates[id].requirements.subscription] ]_vars

\* C19: a successful use of a template creates the new design and also
\* increments the usage counters of the template
C19_UseIncrementsUsage ==
    [][ (last'.op = "useTemplate" /\ last'.msg = "Created")
        => /\ DOMAIN designs' = DOMAIN designs \cup {nextDesignId}
           /\ templates'[last'.id].usageCount = templates[last'.id].usageCount + 1
           /\ templates'[last'.id].popularity = templates[last'.id].popularity + 1 ]_vars

\* C20: rating is a running mean: no template starts with a rating, and a
\* successful rating r of a template with average a and count n leaves count
\* n + 1 and average (a * n + r) / (n + 1), so that every rating in a sequence
\* counts once; rating 4 and then 2 gives average 3 and count 2
C20_RatingIsRunningMean ==
    /\ \A id \in DOMAIN templates : templates[id].ratings.count = 0
    /\ [][ (last'.op = "rateTemplate" /\ last'.msg = "OK")
           => LET a == templates[last'.id].ratings.average
                  n == templates[last'.id].ratings.count
                  r == last'.rating
                  after == templates'[last'.id].ratings
              IN /\ after.count = n + 1
                 /\ after.average.den > 0
                 /\ after.average.num * a.den * (n + 1)
                      = (a.num * n + r * a.den) * after.average.den
                 /\ (n = 0 /\ r = 4) => after.average = [num |-> 4, den |-> 1]
                 /\ (n = 1 /\ a = [num |-> 4, den |-> 1] /\ r = 2)
                      => after = [average |-> [num |-> 3, den |-> 1], count |-> 2]
                 /\ \A id \in DOMAIN templates \ {last'.id} :
                      templates'[id] = templates[id] ]_vars

\* a template was rated 4 and then 2
C20_Witness ==
    /\ last.op = "rateTemplate"
    /\ last.msg = "OK"
    /\ last.rating = 2
    /\ templates[last.id].ratings = [average |-> [num |-> 3, den |-> 1], count |-> 2]

\* C21: a listing with T matching items answers page p >= 1 with limit L in
\* 1..100 (1 and 20 when the query names none) with totalPages = ceil(T / L),
\* hasNextPage exactly when p < totalPages and hasPrevPage exactly when
\* p > 1; 250 items in pages of 100 make 3 pages
C21_PaginationMetadata ==
    [][ (last'.op = "listFurniture" /\ last'.msg = "OK")
        => LET query == reqs[1].query
               T == reqs[1].total
               p == IF "page" \in DOMAIN query THEN query.page ELSE 1
               L == IF "limit" \in DOMAIN query THEN query.limit ELSE 20
               answer == last'.pagination
           IN /\ p >= 1 /\ L \in 1..100
              /\ answer.currentPage = p /\ answer.itemsPerPage = L
              /\ answer.totalItems = T
              /\ answer.totalPages * L >= T
              /\ (answer.totalPages - 1) * L < T \/ (T = 0 /\ answer.totalPages = 0)
              /\ answer.hasNextPage <=> p < answer.totalPages
              /\ answer.hasPrevPage <=> p > 1
              /\ (T = 250 /\ L = 100) => answer.totalPages = 3 ]_vars

\* page 3 of 250 items in pages of 100: a previous page and no next page
C21_Witness ==
    /\ last.op = "listFurniture"
    /\ last.msg = "OK"
    /\ last.pagination = [currentPage |-> 3, totalPages |-> 3, totalItems |-> 250,
                          itemsPerPage |-> 100, hasNextPage |-> FALSE,
                          hasPrevPage |-> TRUE]

\* C22: updating a furniture item by an id that no item of the design has is
\* answered NotFound and leaves the design unchanged; by the id of an
\* existing item it succeeds, overwrites the patched fields of that item,
\* leaves every other item untouched and recomputes the metadata
C22_UpdateFurnitureByItemId ==
    [][ (last'.op = "updateFurniture" /\ last'.id \in DOMAIN designs)
        => LET before == designs[last'.id]
               after == designs'[last'.id]
               matches == {i \in 1..Len(before.furniture) :
                             before.furniture[i].id = last'.target}
           IN IF matches = {}
              THEN last'.msg = "Furniture not found" /\ after = before
              ELSE /\ last'.msg = "OK"
                   /\ Len(after.furniture) = Len(before.furniture)
                   /\ \A i \in 1..Len(before.furniture) :
                        /\ after.furniture[i].id = before.furniture[i].id
                        /\ i \notin matches => after.furniture[i] = before.furniture[i]
                   /\ after.metadata = preSaveMetadata(after.furniture) ]_vars

\* C23: adding furniture appends exactly one item to the design's list, and
\* when the request names no id the generated id differs from the id of
\* every other item of the design, also for items added in immediate
\* succession
C23_GeneratedFurnitureIdIsUnique ==
    [][ (last'.op = "addFurniture" /\ last'.msg = "OK" /\ last'.id \in DOMAIN designs)
        => LET before == designs[last'.id].furniture
               after == designs'[last'.id].furniture
           IN /\ Len(after) = Len(before) + 1
              /\ SubSeq(after, 1, Len(before)) = before
              /\ last'.target = NoId
                   => \A i \in 1..Len(before) : before[i].id # after[Len(after)].id ]_vars

\* C24: a request whose input fails field validation is answered
\* ValidationFailed (400) and changes no stored document; this includes an
\* update of a collaborator's role to a role that is not viewer, editor or
\* admin
C24_InvalidInputIsRejected ==
    [][ /\ last'.msg = "Validation failed"
             => projects' = projects /\ designs' = designs /\ templates' = templates
        /\ (last'.op \in {"addCollaborator", "updateCollaborator"}
              /\ last'.role \notin {"viewer", "editor", "admin"})
             => last'.msg = "Validation failed" /\ projects' = projects ]_vars

\* a credential that resolves to no identity: missing, malformed, expired,
\* or naming a user that does not exist or is deactivated
Unresolved(token) ==
    \/ token.form # "signed"
    \/ token.expired
    \/ token.userId \notin {"u1", "u2"}
    \/ token.userId = "u2"

\* C25: identity resolution fails softly: with a credential that is missing,
\* malformed, expired, or names a nonexistent or deactivated user, an
\* operation with mandatory authentication is answered 401 and its handler
\* does not run, and an operation with optional authentication proceeds
\* with no identity and never fails because of the credential
C25_IdentityFailsSoftly ==
    [][ /\ last'.op = "createProject"
             => IF Unresolved(reqs[1].token)
                THEN /\ StatusOf(last'.msg) = 401
                     /\ projects' = projects /\ designs' = designs
                     /\ templates' = templates
                ELSE last'.msg = "Created" /\ last'.actor = reqs[1].token.userId
        /\ last'.op = "listTemplates"
             => /\ last'.msg = "OK"
                /\ IF Unresolved(reqs[1].token)
                   THEN last'.actor = NoUser /\ last'.as = "anonymous"
                   ELSE last'.actor = reqs[1].token.userId ]_vars

\* a mandatory operation was refused to the token of a deactivated user
C25_Witness ==
    /\ last.op = "createProject"
    /\ last.msg = "Account is deactivated"
    /\ projects = << >>

\* the request whose step this is: the first slot that changes
ActingSlot ==
    CHOOSE s \in 1..Len(reqs) :
        /\ s > Len(reqs') \/ reqs'[s] # reqs[s]
        /\ \A k \in 1..(s - 1) : reqs'[k] = reqs[k]

\* C26: a design is only ever created under a project by a user who has
\* access to that project, as its owner or as one of its collaborators, in
\* every operation that creates designs (create design, duplicate design,
\* duplicate project, use template)
C26_DesignCreatedByProjectMember ==
    [][ \A d \in DOMAIN designs' \ DOMAIN designs :
          LET p == designs'[d].project
              user == reqs[ActingSlot].actor
          IN /\ p \in DOMAIN projects
             /\ \/ projects[p].owner = user
                \/ \E i \in 1..Len(projects[p].collaborators) :
                      projects[p].collaborators[i].user = user ]_vars

\* C27: once every request in flight has completed, each stored design's
\* project reference names a stored project, however a design-creating
\* request (create, duplicate, use template) and the deletion of the
\* project interleave
C27_NoOrphanDesigns ==
    reqs = << >> => \A d \in DOMAIN designs : designs[d].project \in DOMAIN projects

\* C28: the version of a project is a monotonic counter: however concurrent
\* modifying requests on the project interleave, the stored version never
\* decreases from one stored state to the next
C28_VersionNeverDecreases ==
    [][ \A p \in DOMAIN projects \cap DOMAIN projects' :
          projects'[p].version >= projects[p].version ]_vars

C30_OwnershipEdgesImmutable ==
    [][ /\ \A p \in DOMAIN projects \cap DOMAIN projects' :
              projects'[p].owner = projects[p].owner
        /\ \A d \in DOMAIN designs \cap DOMAIN designs' :
              designs'[d].project = designs[d].project ]_vars

\* a project update whose body named another owner was answered OK, after a
\* duplication of the project and with a design in it
C30_Witness ==
    /\ last.op = "updateProject"
    /\ last.msg = "OK"
    /\ projects[1].owner = "u1"
    /\ 2 \in DOMAIN projects
    /\ \E d \in DOMAIN designs : designs[d].project = 1

====
